---- MODULE Spec2Model ----
(***************************************************************************)
(* Model of the barcodesDB query engine: the windowed multi-shard          *)
(* streaming scan of query_substring_bitmap_stream (filters, expansion     *)
(* state machine, lanes, round-robin emission, BCW2 cursor, pagination).   *)
(*                                                                         *)
(* Keys are 2k-bit values.  The checker's integers are 32 bits wide, so    *)
(* the base k of the shard set is scaled down (K0) and 64-bit words are    *)
(* written as their signed residue modulo 2^64: a small natural stands for *)
(* itself and -1 stands for UINT64_MAX.                                    *)
(***************************************************************************)
EXTENDS Integers, Sequences, FiniteSets, TLC

VARIABLES
  \* ---- streaming engine (one process per page, chained by the cursor) ----
  index,          \* index.json: [num_shards, k, total_bits]
  present,        \* the database: the set of keys stored in the shard bitmaps
  loadable,       \* shard indices whose .kbit file load_kbit_portable accepts
  args,           \* Args of the current request
  pc,             \* position of main(): "start", "refill", "workers", "drain", "finish", "done", "failed"
  seed,           \* permutation seed in use
  lanes,          \* vector<LaneRuntime> lanes(args.window), indexed 0..W-1
  next_perm_pos,  \* next permutation position to hand to a lane
  out_vals,       \* vector<uint64_t> out_vals
  perm,           \* vector<uint32_t> perm, indexed 0..num_shards-1
  meta,           \* the __META__ line of the last finished page: [cursor, hasMore, count, kout]
  stdout,         \* the k-mer lines printed after it
  chain,          \* every key returned to the caller by the finished pages of the chain, in order
  pages,          \* number of finished pages of the chain
  \* ---- refill worker pool ----
  idx,            \* atomic<int> idx of the current refill phase
  wk,             \* per worker thread: [pc, i, r]
  \* ---- expansion state machine driven alone ----
  xs,             \* [on, d, B, L, left_idx, right_idx, done, seen]
  \* ---- cursor codec driven alone ----
  cc,             \* [on, c, token, parsed, ok, bytes, enc, dec, decok, step]
  \* ---- membership query (query_kmer_bitmap) ----
  mq,             \* [on, pc, kmers, kmer_vals, shard_to_indices, next_shard, hits, ...]
  \* ---- build_perm driven alone ----
  bp,             \* [on, pc, n, seed, any, call, st, i, p, first]
  \* ---- the k0 / kout checks of main() driven alone ----
  kq,             \* [on, pc, k_index, construct_k]
  \* ---- a KBITv1 file written by gen_kmer_bitmap and read by the shard loader ----
  kf              \* [on, pc, kind, k, ones, keys, file, res]

vars == <<index, present, loadable, args, pc, seed, lanes, next_perm_pos, out_vals,
          perm, meta, stdout, chain, pages, idx, wk, xs, cc, mq, bp, kq, kf>>

engineVars == <<index, present, loadable, args, pc, seed, lanes, next_perm_pos, out_vals,
                perm, meta, stdout, chain, pages, idx, wk>>

-----------------------------------------------------------------------------
\* Bounds of the model

\* base k of the shard set (18 in production; 2k-bit keys must fit the checker's integers)
K0 == 2
\* largest kout - k0 explored
MaxD == 1
\* number of shards in index.json
NumShards == 3
\* keys per shard (total_bits = NumShards * ShardWidth)
ShardWidth == 2
\* largest --limit explored
MaxLimit == 2
\* largest number of pages followed in one chain
MaxPages == 6
\* largest number of absent anchors in the database of an expansion query
MaxAnchors == 2

-----------------------------------------------------------------------------
\* 64-bit words and bit operations

\* UINT64_MAX, as its residue modulo 2^64
UINT64_MAX == -1

\* a < b on uint64_t operands given as residues
ULess(a, b) == IF ((a < 0) <=> (b < 0)) THEN (a < b) ELSE (b < 0)

RECURSIVE BitXor(_, _)
BitXor(a, b) ==
  IF a = 0 THEN b
  ELSE IF b = 0 THEN a
  ELSE (((a % 2) + (b % 2)) % 2) + 2 * BitXor(a \div 2, b \div 2)

RECURSIVE BitAnd(_, _)
BitAnd(a, b) ==
  IF a = 0 \/ b = 0 THEN 0
  ELSE (a % 2) * (b % 2) + 2 * BitAnd(a \div 2, b \div 2)

RECURSIVE BitOr(_, _)
BitOr(a, b) ==
  IF a = 0 THEN b
  ELSE IF b = 0 THEN a
  ELSE (IF (a % 2) = 1 \/ (b % 2) = 1 THEN 1 ELSE 0) + 2 * BitOr(a \div 2, b \div 2)

Shl(a, n) == a * (2 ^ n)
Shr(a, n) == a \div (2 ^ n)

Min(a, b) == IF a < b THEN a ELSE b

-----------------------------------------------------------------------------
\* DNA helpers

base4_digit(c) ==
  CASE c \in {"A", "a"} -> 0
    [] c \in {"C", "c"} -> 1
    [] c \in {"G", "g"} -> 2
    [] c \in {"T", "t"} -> 3
    [] OTHER -> -1

base4_char(d) == <<"A", "C", "G", "T">>[(d % 4) + 1]

\* string s(k,' '); for i = k-1 down to 0: s[i] = base4_char(val & 3); val >>= 2
decode_kmer(val, k) == [i \in 1..k |-> base4_char(Shr(val, 2 * (k - i)) % 4)]

dna_comp(c) ==
  CASE c = "A" -> "T" [] c = "a" -> "t"
    [] c = "C" -> "G" [] c = "c" -> "g"
    [] c = "G" -> "C" [] c = "g" -> "c"
    [] c = "T" -> "A" [] c = "t" -> "a"
    [] OTHER -> "?"

revcomp_string(s) == [i \in 1..Len(s) |-> dna_comp(s[Len(s) + 1 - i])]

-----------------------------------------------------------------------------
\* Filters

RECURSIVE gc_count(_, _)
gc_count(v, k) ==
  IF k = 0 THEN 0
  ELSE (IF (v % 4) \in {1, 2} THEN 1 ELSE 0) + gc_count(v \div 4, k - 1)

passes_gc_percent(v, k, gcMinPct, gcMaxPct) ==
  LET lhs == gc_count(v, k) * 100
      lo  == gcMinPct * k
      hi  == gcMaxPct * k
  IN  lhs >= lo /\ lhs <= hi

\* Pattern { mask, bits }: true iff some pattern has ((v ^ bits) & mask) == 0
contains_sub(v, pats) ==
  \E i \in 1..Len(pats) : BitAnd(BitXor(v, pats[i].bits), pats[i].mask) = 0

RECURSIVE sub_bits_of(_)
sub_bits_of(sub) ==
  IF Len(sub) = 0 THEN 0
  ELSE sub_bits_of(SubSeq(sub, 1, Len(sub) - 1)) * 4 + base4_digit(sub[Len(sub)])

\* the lambda append_patterns_for: the patterns of one substring at every offset
\* (the caller has checked m <= kout and that every base is valid)
append_patterns_for(sub, kout) ==
  LET m == Len(sub)
      base_mask == Shl(1, 2 * m) - 1
  IN  IF m = 0 THEN <<>>
      ELSE [p \in 1..(kout - m + 1) |->
              LET shift == 2 * (kout - m - (p - 1))
              IN  [mask |-> Shl(base_mask, shift), bits |-> Shl(sub_bits_of(sub), shift)]]

\* whether append_patterns_for accepts the substring
substring_ok(sub, kout) ==
  /\ Len(sub) <= kout
  /\ \A i \in 1..Len(sub) : base4_digit(sub[i]) >= 0

\* vector<Pattern> patterns as main() builds it
build_patterns(a, kout) ==
  IF ~a.substring_set THEN <<>>
  ELSE LET rc == revcomp_string(a.substring)
       IN  append_patterns_for(a.substring, kout) \o
           (IF a.reverse_complement /\ rc # a.substring
              THEN append_patterns_for(rc, kout) ELSE <<>>)

\* fault injection: a leaf test that lets every value through
leaf_ok_unfiltered(vX, kout, gcMinPct, gcMaxPct, substring_set, patterns) == TRUE

leaf_ok(vX, kout, gcMinPct, gcMaxPct, substring_set, patterns) ==
  IF ~passes_gc_percent(vX, kout, gcMinPct, gcMaxPct) THEN FALSE
  ELSE IF substring_set /\ ~contains_sub(vX, patterns) THEN FALSE
  ELSE TRUE

-----------------------------------------------------------------------------
\* Expansion helpers

pow4(n) == IF n <= 0 THEN 1 ELSE Shl(1, 2 * n)

make_value(parentB, k0, kout, L, left_idx, right_idx) ==
  LET d == kout - k0
      R == d - L
  IN  BitOr(BitOr(Shl(left_idx, 2 * (k0 + R)), Shl(parentB, 2 * R)), right_idx)

init_state_first(d) == [L |-> d, left_idx |-> 0, right_idx |-> 0]

\* fault injection: an advance that never carries into left_idx
advance_state_no_carry(d, s) ==
  IF s.right_idx + 1 < pow4(d - s.L)
    THEN [ok |-> TRUE, L |-> s.L, left_idx |-> s.left_idx, right_idx |-> s.right_idx + 1]
  ELSE IF s.L = 0 THEN [ok |-> FALSE, L |-> s.L, left_idx |-> 0, right_idx |-> 0]
  ELSE [ok |-> TRUE, L |-> s.L - 1, left_idx |-> 0, right_idx |-> 0]

\* fault injection: a carry into left_idx that leaves right_idx where it was
advance_state_no_reset(d, s) ==
  IF s.right_idx + 1 < pow4(d - s.L)
    THEN [ok |-> TRUE, L |-> s.L, left_idx |-> s.left_idx, right_idx |-> s.right_idx + 1]
  ELSE IF s.left_idx + 1 < pow4(s.L)
    THEN [ok |-> TRUE, L |-> s.L, left_idx |-> s.left_idx + 1, right_idx |-> s.right_idx]
  ELSE IF s.L = 0 THEN [ok |-> FALSE, L |-> s.L, left_idx |-> 0, right_idx |-> 0]
  ELSE [ok |-> TRUE, L |-> s.L - 1, left_idx |-> 0, right_idx |-> 0]

\* advance_state: the state after the call and the value returned
advance_state(d, s) ==
  LET Li == s.L
      R  == d - Li
      right_lim == pow4(R)
      left_lim  == pow4(Li)
  IN  IF s.right_idx + 1 < right_lim
        THEN [ok |-> TRUE, L |-> s.L, left_idx |-> s.left_idx, right_idx |-> s.right_idx + 1]
      ELSE IF s.left_idx + 1 < left_lim
        THEN [ok |-> TRUE, L |-> s.L, left_idx |-> s.left_idx + 1, right_idx |-> 0]
      ELSE IF Li = 0
        THEN [ok |-> FALSE, L |-> s.L, left_idx |-> 0, right_idx |-> 0]
      ELSE [ok |-> TRUE, L |-> Li - 1, left_idx |-> 0, right_idx |-> 0]

-----------------------------------------------------------------------------
\* Shard index and database

\* index.json carries no start/end here: main() derives equal-width ranges
total_bits_of(ix) == IF ix.total_bits # 0 THEN ix.total_bits ELSE Shl(1, 2 * ix.k)

shard_width(ix) == (total_bits_of(ix) + ix.num_shards - 1) \div ix.num_shards

shard_starts(ix) == [i \in 0..(ix.num_shards - 1) |-> i * shard_width(ix)]

shard_ends(ix) ==
  [i \in 0..(ix.num_shards - 1) |-> Min(total_bits_of(ix), i * shard_width(ix) + shard_width(ix))]

\* the keys stored in the bitmap of one shard file
bitmap_of(shardIdx) ==
  {v \in present : shard_starts(index)[shardIdx] <= v /\ v < shard_ends(index)[shardIdx]}

roaring64_bitmap_contains(bm, v) == v \in bm

\* load_kbit_portable: TRUE when a bitmap is returned, FALSE for nullptr
load_kbit_portable(shardIdx) == shardIdx \in loadable

-----------------------------------------------------------------------------
\* Lane runtime

LaneRuntime ==
  [active |-> FALSE, perm_pos |-> 0, shardIdx |-> 0, bm |-> FALSE,
   after |-> UINT64_MAX,
   parent_anchor |-> UINT64_MAX, child_present |-> FALSE,
   L |-> 0, left_idx |-> 0, right_idx |-> 0,
   buf |-> <<>>, buf_pos |-> 0]

clear_buf(lane) == [lane EXCEPT !.buf = <<>>, !.buf_pos = 0]

free_all(lane) == [clear_buf(lane) EXCEPT !.bm = FALSE, !.active = FALSE]

\* mode 0 scan loop: for (; v < end && buf.size() < refill_target; ++v)
RECURSIVE scan_konly(_, _, _, _, _, _)
scan_konly(v, buf, end, bm, refill_target, f) ==
  IF ULess(v, end) /\ Len(buf) < refill_target
    THEN scan_konly(v + 1,
                    IF roaring64_bitmap_contains(bm, v) THEN buf
                    ELSE IF ~leaf_ok(v, f.kout, f.gcMinPct, f.gcMaxPct, f.substring_set, f.patterns)
                      THEN buf
                    ELSE Append(buf, v),
                    end, bm, refill_target, f)
  ELSE [v |-> v, buf |-> buf]

\* while (parentB < end && contains(bm, parentB)) parentB++
RECURSIVE skip_present(_, _, _)
skip_present(parentB, end, bm) ==
  IF ULess(parentB, end) /\ roaring64_bitmap_contains(bm, parentB)
    THEN skip_present(parentB + 1, end, bm)
  ELSE parentB

\* while (!exhausted_parent && buf.size() < refill_target): push the child, advance
RECURSIVE expand_parent(_, _, _, _, _, _)

\* if (leaf_ok(vX, ...)) lane.buf.push_back(vX)
push_child(buf, vX, f) ==
  IF leaf_ok(vX, f.kout, f.gcMinPct, f.gcMaxPct, f.substring_set, f.patterns)
    THEN Append(buf, vX) ELSE buf

\* the rest of the loop once advance_state has returned a
expand_next(parentB, a, nb, refill_target, f) ==
  expand_parent(parentB, [L |-> a.L, left_idx |-> a.left_idx, right_idx |-> a.right_idx],
                nb, ~a.ok, refill_target, f)

expand_parent(parentB, s, buf, exhausted_parent, refill_target, f) ==
  IF ~exhausted_parent /\ Len(buf) < refill_target
    THEN expand_next(parentB, advance_state(f.kout - f.k0, s),
                     push_child(buf, make_value(parentB, f.k0, f.kout, s.L, s.left_idx, s.right_idx), f),
                     refill_target, f)
  ELSE [s |-> s, buf |-> buf, exhausted_parent |-> exhausted_parent]

\* mode 1: while (lane.buf.size() < refill_target) { ... }
RECURSIVE scan_expand(_, _, _, _, _, _)

\* the end of one iteration, r being what the inner loop left: store the progress
\* if the buffer is full, else mark the parent as done and go on
store_progress(lane, parentB, r, start, end, bm, refill_target, f) ==
  IF Len(r.buf) >= refill_target
    THEN [lane EXCEPT !.buf = r.buf, !.parent_anchor = parentB, !.child_present = TRUE,
                      !.L = r.s.L, !.left_idx = r.s.left_idx, !.right_idx = r.s.right_idx]
  ELSE scan_expand([lane EXCEPT !.buf = r.buf, !.parent_anchor = parentB,
                                !.child_present = FALSE,
                                !.L = 0, !.left_idx = 0, !.right_idx = 0],
                   start, end, bm, refill_target, f)

\* one iteration from the next absent parent parentB on
expand_from(lane, parentB, start, end, bm, refill_target, f) ==
  IF ~ULess(parentB, end) THEN [lane EXCEPT !.active = FALSE]
  ELSE store_progress(lane, parentB,
                      expand_parent(parentB,
                                    IF lane.child_present /\ lane.parent_anchor = parentB
                                      THEN [L |-> lane.L, left_idx |-> lane.left_idx,
                                            right_idx |-> lane.right_idx]
                                    ELSE init_state_first(f.kout - f.k0),
                                    lane.buf, FALSE, refill_target, f),
                      start, end, bm, refill_target, f)

scan_expand(lane, start, end, bm, refill_target, f) ==
  IF ~(Len(lane.buf) < refill_target) THEN lane
  ELSE expand_from(lane,
                   skip_present(IF lane.parent_anchor = UINT64_MAX THEN start
                                ELSE IF lane.child_present THEN lane.parent_anchor
                                ELSE lane.parent_anchor + 1,
                                end, bm),
                   start, end, bm, refill_target, f)

\* refill_lane; f = [k0, kout, gcMinPct, gcMaxPct, substring_set, patterns]
\* mode 0 after the scan loop, r being what the loop left
end_konly(lane, r, end) ==
  IF r.v = end THEN [lane EXCEPT !.buf = r.buf, !.active = FALSE]
  ELSE [lane EXCEPT !.buf = r.buf, !.after = r.v - 1]

\* the two modes on the lane's shard [start, end) with bitmap bm
refill_shard(lane, f, refill_target, start, end, bm) ==
  IF f.kout = f.k0
    THEN end_konly(lane,
                   scan_konly(IF lane.after = UINT64_MAX THEN start ELSE lane.after + 1,
                              lane.buf, end, bm, refill_target, f),
                   end)
  ELSE scan_expand(lane, start, end, bm, refill_target, f)

\* refill_lane once the buffer was cleared
refill_cleared(lane, f, refill_target, starts, ends) ==
  IF ~lane.active \/ ~lane.bm THEN lane
  ELSE IF lane.shardIdx \notin DOMAIN starts \/ lane.shardIdx \notin DOMAIN ends
    THEN [lane EXCEPT !.active = FALSE]
  ELSE refill_shard(lane, f, refill_target, starts[lane.shardIdx], ends[lane.shardIdx],
                    bitmap_of(lane.shardIdx))

refill_lane(lane0, f, refill_target, starts, ends) ==
  refill_cleared(clear_buf(lane0), f, refill_target, starts, ends)

-----------------------------------------------------------------------------
\* splitmix64 and the shard permutation.  A uint64_t is computed on as its
\* eight little-endian bytes, so the arithmetic is exact modulo 2^64.

RECURSIVE byte_at(_, _)
byte_at(x, i) == IF i = 0 THEN x % 256 ELSE byte_at(x \div 256, i - 1)

\* the eight bytes (x >> (8*i)) & 0xFF, i = 0..7
u64_bytes(x) == [i \in 1..8 |-> byte_at(x, i - 1)]

RECURSIVE u64_add_from(_, _, _, _)
u64_add_from(a, b, i, carry) ==
  IF i > 8 THEN <<>>
  ELSE LET t == a[i] + b[i] + carry
       IN  <<t % 256>> \o u64_add_from(a, b, i + 1, t \div 256)

u64_add(a, b) == u64_add_from(a, b, 1, 0)

u64_xor(a, b) == [i \in 1..8 |-> BitXor(a[i], b[i])]

\* a >> n for 0 <= n < 64
u64_shr(a, n) ==
  LET q == n \div 8
      r == n % 8
      at(i) == IF i <= 8 THEN a[i] ELSE 0
  IN  [i \in 1..8 |-> ((at(i + q) \div (2 ^ r)) + ((at(i + q + 1) % (2 ^ r)) * (2 ^ (8 - r)))) % 256]

RECURSIVE u64_mul_col(_, _, _, _)
u64_mul_col(a, b, k, i) ==
  IF i > k THEN 0 ELSE a[i] * b[k + 1 - i] + u64_mul_col(a, b, k, i + 1)

RECURSIVE u64_mul_from(_, _, _, _)
u64_mul_from(a, b, k, carry) ==
  IF k > 8 THEN <<>>
  ELSE LET t == u64_mul_col(a, b, k, 1) + carry
       IN  <<t % 256>> \o u64_mul_from(a, b, k + 1, t \div 256)

u64_mul(a, b) == u64_mul_from(a, b, 1, 0)

\* a % m for a small m
RECURSIVE u64_mod_from(_, _, _, _)
u64_mod_from(a, m, i, r) ==
  IF i = 0 THEN r ELSE u64_mod_from(a, m, i - 1, (r * 256 + a[i]) % m)

u64_mod(a, m) == u64_mod_from(a, m, 8, 0)

\* 0x9E3779B97F4A7C15, 0xBF58476D1CE4E5B9, 0x94D049BB133111EB
SM_GAMMA == <<21, 124, 74, 127, 185, 121, 55, 158>>
SM_MUL1  == <<185, 229, 228, 28, 109, 71, 88, 191>>
SM_MUL2  == <<235, 17, 49, 19, 187, 73, 208, 148>>

\* x ^ (x >> n)
xorshift(x, n) == u64_xor(x, u64_shr(x, n))

splitmix64(x) ==
  xorshift(u64_mul(xorshift(u64_mul(xorshift(u64_add(x, SM_GAMMA), 30), SM_MUL1), 27), SM_MUL2), 31)

\* for (i = n; i > 1; --i) { st = splitmix64(st); j = st % i; swap(p[i-1], p[j]); }
RECURSIVE shuffle_from(_, _, _)

\* j = st % i; swap(p[i-1], p[j]); and the remaining iterations
shuffle_swap(p, st, i, j) ==
  shuffle_from([p EXCEPT ![i - 1] = p[j], ![j] = p[i - 1]], st, i - 1)

shuffle_drawn(p, st, i) == shuffle_swap(p, st, i, u64_mod(st, i))

shuffle_from(p, st, i) ==
  IF ~(i > 1) THEN p ELSE shuffle_drawn(p, splitmix64(st), i)

build_perm(n, sd) ==
  shuffle_from([i \in 0..(n - 1) |-> i], u64_bytes(IF sd # 0 THEN sd ELSE 1), n)

identity_perm(n) == [i \in 0..(n - 1) |-> i]

-----------------------------------------------------------------------------
\* Base64url and little-endian pack/unpack.  A token is the sequence of the
\* character codes of its characters; a byte buffer is a sequence of 0..255.

\* "ABCDEFGHIJKLMNOPQRSTUVWXYZabcdefghijklmnopqrstuvwxyz0123456789-_"
B64URL ==
  [i \in 1..26 |-> 64 + i] \o [i \in 1..26 |-> 96 + i] \o [i \in 1..10 |-> 47 + i] \o <<45, 95>>

\* while (bits >= 6) { bits -= 6; out.push_back(B64URL[(buf >> bits) & 63]); }
RECURSIVE b64_flush(_, _, _)
b64_flush(buf, bits, out) ==
  IF bits >= 6
    THEN b64_flush(buf, bits - 6, Append(out, B64URL[(Shr(buf, bits - 6) % 64) + 1]))
  ELSE [bits |-> bits, out |-> out]

\* one iteration of "for (uint8_t c : in)"; st = [buf, bits, out].  The uint32_t
\* accumulator is kept modulo 2^30: only its low 13 bits are ever read.
b64_enc_step(st, c) ==
  LET nb == (st.buf % (2 ^ 22)) * 256 + c
      r  == b64_flush(nb, st.bits + 8, st.out)
  IN  [buf |-> nb, bits |-> r.bits, out |-> r.out]

\* the iterations lo..hi of the loop, run in order from state st (first lo..mid,
\* then mid+1..hi from the state the first half leaves)
RECURSIVE b64_enc_loop(_, _, _, _)
b64_enc_loop(in, lo, hi, st) ==
  IF lo > hi THEN st
  ELSE IF lo = hi THEN b64_enc_step(st, in[lo])
  ELSE LET mid == (lo + hi) \div 2
           left == b64_enc_loop(in, lo, mid, st)
       IN  IF left.bits < 0 THEN left ELSE b64_enc_loop(in, mid + 1, hi, left)

b64url_encode(in) ==
  LET st == b64_enc_loop(in, 1, Len(in), [buf |-> 0, bits |-> 0, out |-> <<>>])
  IN  IF st.bits # 0
        THEN Append(st.out, B64URL[(Shl(st.buf % 64, 6 - st.bits) % 64) + 1])
      ELSE st.out

\* the table T: the index of the character in B64URL, or -1
b64_T(ch) ==
  IF \E i \in 1..64 : B64URL[i] = ch
    THEN (CHOOSE i \in 1..64 : B64URL[i] = ch) - 1
  ELSE -1

\* one iteration of "for (char ch : s)"; st = [ok, buf, bits, out], ok = FALSE after "return false"
b64_dec_step(st, ch) ==
  IF ~st.ok THEN st
  ELSE LET v == b64_T(ch)
       IN  IF v < 0 THEN [st EXCEPT !.ok = FALSE]
           ELSE LET nb == (st.buf % (2 ^ 22)) * 64 + v
                    n  == st.bits + 6
                IN  IF n >= 8
                      THEN [ok |-> TRUE, buf |-> nb, bits |-> n - 8,
                            out |-> Append(st.out, Shr(nb, n - 8) % 256)]
                    ELSE [ok |-> TRUE, buf |-> nb, bits |-> n, out |-> st.out]

RECURSIVE b64_dec_loop(_, _, _, _)
b64_dec_loop(s, lo, hi, st) ==
  IF lo > hi THEN st
  ELSE IF lo = hi THEN b64_dec_step(st, s[lo])
  ELSE LET mid == (lo + hi) \div 2
           left == b64_dec_loop(s, lo, mid, st)
       IN  IF ~left.ok THEN left ELSE b64_dec_loop(s, mid + 1, hi, left)

\* b64url_decode: [ok, out]
b64url_decode(s) ==
  LET st == b64_dec_loop(s, 1, Len(s), [ok |-> TRUE, buf |-> 0, bits |-> 0, out |-> <<>>])
  IN  [ok |-> st.ok, out |-> st.out]

\* fault injection: the 16-bit fields written high byte first
push_u16_be(b, x) == b \o <<Shr(x, 8) % 256, x % 256>>

push_u16_le(b, x) == b \o <<x % 256, Shr(x, 8) % 256>>

push_u32_le(b, x) == b \o <<x % 256, Shr(x, 8) % 256, Shr(x, 16) % 256, Shr(x, 24) % 256>>

push_u64_le(b, x) == b \o u64_bytes(x)

read_u16_le(b, off) ==
  IF off + 2 > Len(b) THEN [ok |-> FALSE, x |-> 0]
  ELSE [ok |-> TRUE, x |-> b[off + 1] + 256 * b[off + 2]]

read_u32_le(b, off) ==
  IF off + 4 > Len(b) THEN [ok |-> FALSE, x |-> 0]
  ELSE [ok |-> TRUE,
        x  |-> b[off + 1] + 256 * b[off + 2] + 65536 * b[off + 3] + 16777216 * b[off + 4]]

\* the residue of the 64-bit word with bytes b[off..off+7]
RECURSIVE u64_value_from(_, _, _, _)
u64_value_from(b, off, i, acc) ==
  IF i = 0 THEN acc ELSE u64_value_from(b, off, i - 1, acc * 256 + b[off + i])

\* fault injection: a 64-bit read that does not look at the length of the buffer
read_u64_unchecked(b, off) == [ok |-> TRUE, x |-> 0]

read_u64_le(b, off) ==
  IF off + 8 > Len(b) THEN [ok |-> FALSE, x |-> 0]
  ELSE [ok |-> TRUE,
        x  |-> u64_value_from(b, off, 7, IF b[off + 8] >= 128 THEN b[off + 8] - 256 ELSE b[off + 8])]

-----------------------------------------------------------------------------
\* Window cursor BCW2

LaneState ==
  [active |-> FALSE, perm_pos |-> 0, mode |-> 0, after |-> UINT64_MAX,
   parent_anchor |-> UINT64_MAX, child_present |-> FALSE,
   L |-> 0, left_idx |-> 0, right_idx |-> 0]

WindowCursor ==
  [present |-> FALSE, flags |-> 0, k0 |-> 0, kout |-> 0, d |-> 0, numShards |-> 0, seed |-> 0,
   next_perm_pos |-> 0, window |-> 0, burst |-> 0, lanes |-> <<>>]

\* the bytes one lane contributes
lane_bytes(ln) ==
  IF ~ln.active THEN <<0>>
  ELSE LET head == Append(push_u32_le(<<1>>, ln.perm_pos), ln.mode)
       IN  IF ln.mode = 0 THEN push_u64_le(head, ln.after)
           ELSE LET p == Append(push_u64_le(head, ln.parent_anchor),
                                IF ln.child_present THEN 1 ELSE 0)
                IN  IF ln.child_present
                      THEN push_u64_le(push_u64_le(Append(p, ln.L), ln.left_idx), ln.right_idx)
                    ELSE p

RECURSIVE lanes_bytes(_, _)
lanes_bytes(ls, i) == IF i > Len(ls) THEN <<>> ELSE lane_bytes(ls[i]) \o lanes_bytes(ls, i + 1)

cursor_bytes(c) ==
  LET h1 == <<66, 67, 87, 50, c.flags, c.k0, c.kout, c.d>>
      h2 == push_u32_le(push_u64_le(push_u32_le(h1, c.numShards), c.seed), c.next_perm_pos)
      h3 == push_u16_le(push_u16_le(push_u16_le(h2, c.window), c.burst), Len(c.lanes) % 65536)
  IN  h3 \o lanes_bytes(c.lanes, 1)

make_cursor_bcw2(c) == b64url_encode(cursor_bytes(c))

\* one lane record read at offset off: [ok, lane, off]
parse_lane(b, off) ==
  LET bad == [ok |-> FALSE, lane |-> LaneState, off |-> off]
  IN  IF off + 1 > Len(b) THEN bad
      ELSE IF b[off + 1] = 0 THEN [ok |-> TRUE, lane |-> LaneState, off |-> off + 1]
      ELSE IF (off + 1) + 4 + 1 > Len(b) THEN bad
      ELSE
        LET pp   == read_u32_le(b, off + 1)
            mode == b[off + 6]
            o    == off + 6
            base == [LaneState EXCEPT !.active = TRUE, !.perm_pos = pp.x, !.mode = mode]
        IN  IF mode = 0
              THEN LET a == read_u64_le(b, o)
                   IN  IF ~a.ok THEN bad
                       ELSE [ok |-> TRUE, lane |-> [base EXCEPT !.after = a.x], off |-> o + 8]
            ELSE
              LET pa == read_u64_le(b, o)
              IN  IF ~pa.ok THEN bad
                  ELSE IF (o + 8) + 1 > Len(b) THEN bad
                  ELSE IF b[o + 9] = 0
                    THEN [ok |-> TRUE, off |-> o + 9,
                          lane |-> [base EXCEPT !.parent_anchor = pa.x, !.child_present = FALSE,
                                                !.L = 0, !.left_idx = 0, !.right_idx = 0]]
                  ELSE IF (o + 9) + 1 > Len(b) THEN bad
                  ELSE LET li == read_u64_le(b, o + 10)
                           ri == read_u64_le(b, o + 18)
                       IN  IF ~li.ok \/ ~ri.ok THEN bad
                           ELSE [ok |-> TRUE, off |-> o + 26,
                                 lane |-> [base EXCEPT !.parent_anchor = pa.x,
                                                       !.child_present = TRUE, !.L = b[o + 10],
                                                       !.left_idx = li.x, !.right_idx = ri.x]]

RECURSIVE parse_lanes(_, _, _, _)

\* the loop over the lane records once record r was read
lane_parsed(b, r, n, acc) ==
  IF ~r.ok THEN [ok |-> FALSE, lanes |-> acc]
  ELSE parse_lanes(b, r.off, n - 1, Append(acc, r.lane))

parse_lanes(b, off, n, acc) ==
  IF n = 0 THEN [ok |-> TRUE, lanes |-> acc]
  ELSE lane_parsed(b, parse_lane(b, off), n, acc)

BadCursor == [ok |-> FALSE, c |-> WindowCursor]

\* the cursor of header bytes b and lane records ls
cursor_parsed(b, ls) ==
  IF ~ls.ok THEN BadCursor
  ELSE [ok |-> TRUE,
        c  |-> [present |-> TRUE, flags |-> b[5], k0 |-> b[6], kout |-> b[7],
                d |-> b[8], numShards |-> read_u32_le(b, 8).x,
                seed |-> read_u64_le(b, 12).x,
                next_perm_pos |-> read_u32_le(b, 20).x,
                window |-> read_u16_le(b, 24).x, burst |-> read_u16_le(b, 26).x,
                lanes |-> ls.lanes]]

\* the decoded bytes b: length, magic, header, lanes
parse_cursor_bytes(b) ==
  IF Len(b) < 4 + 1 + 3 + 4 + 8 + 4 + 2 + 2 + 2 THEN BadCursor
  ELSE IF ~(b[1] = 66 /\ b[2] = 67 /\ b[3] = 87 /\ b[4] = 50) THEN BadCursor
  ELSE cursor_parsed(b, parse_lanes(b, 30, read_u16_le(b, 28).x, <<>>))

cursor_decoded(dec) == IF ~dec.ok THEN BadCursor ELSE parse_cursor_bytes(dec.out)

\* parse_cursor_bcw2: [ok, c]
parse_cursor_bcw2(token) == cursor_decoded(b64url_decode(token))

-----------------------------------------------------------------------------
\* main(): process start-up

\* the base k from which expansion is allowed (18 in the source, scaled with K0)
ExpandBaseK == K0

kout_of(a, ix) == IF a.construct_k > 0 THEN a.construct_k ELSE ix.k

\* the filter arguments handed to refill_lane
filters_of(a, ix) ==
  [k0 |-> ix.k, kout |-> kout_of(a, ix), gcMinPct |-> a.gcMinPct, gcMaxPct |-> a.gcMaxPct,
   substring_set |-> a.substring_set, patterns |-> build_patterns(a, kout_of(a, ix))]

\* the k0 / kout checks
k_checks_ok(a, ix) ==
  LET k0 == ix.k
      kout == kout_of(a, ix)
  IN  /\ ~(ix.k <= 0 \/ ix.k > 32)
      /\ ~(kout > 32)
      /\ ~(kout > ExpandBaseK /\ k0 # ExpandBaseK)
      /\ ~(k0 < ExpandBaseK /\ kout # k0)

\* permutation seed of a request without cursor (--ra_seed is always given here)
seed_of_args(a) == IF a.random_access THEN (IF a.ra_seed = 0 THEN 1 ELSE a.ra_seed) ELSE 0

\* fault injection: resume validation without the window comparison
cursor_matches_no_window(c, a, ix) ==
  /\ c.numShards = ix.num_shards
  /\ c.k0 = ix.k % 256 /\ c.kout = kout_of(a, ix) % 256
  /\ c.burst = a.burst
  /\ ((c.flags % 2) # 0) = a.random_access

\* resume validation: the cursor against the request
cursor_matches(c, a, ix) ==
  /\ c.numShards = ix.num_shards
  /\ c.k0 = ix.k % 256 /\ c.kout = kout_of(a, ix) % 256
  /\ c.window = a.window
  /\ c.burst = a.burst
  /\ ((c.flags % 2) # 0) = a.random_access

\* fault injection: a resumed lane that forgets its scan position and restarts its shard
load_lane_restarting(lane0, st, a, ix, pm) ==
  LET lane == free_all(lane0)
  IN  IF ~st.active \/ st.perm_pos >= ix.num_shards \/ ~load_kbit_portable(pm[st.perm_pos])
        THEN [ok |-> FALSE, lane |-> lane]
      ELSE [ok |-> TRUE,
            lane |-> [lane EXCEPT !.perm_pos = st.perm_pos, !.shardIdx = pm[st.perm_pos],
                                  !.bm = TRUE, !.active = TRUE]]

load_lane_from_state(lane0, st, a, ix, pm) ==
  LET lane == free_all(lane0)
  IN  IF ~st.active THEN [ok |-> FALSE, lane |-> lane]
      ELSE IF st.perm_pos >= ix.num_shards THEN [ok |-> FALSE, lane |-> lane]
      ELSE LET shardIdx == pm[st.perm_pos]
               l1 == [lane EXCEPT !.perm_pos = st.perm_pos, !.shardIdx = shardIdx]
           IN  IF ~load_kbit_portable(shardIdx) THEN [ok |-> FALSE, lane |-> l1]
               ELSE [ok |-> TRUE,
                     lane |-> IF kout_of(a, ix) = ix.k
                                THEN [l1 EXCEPT !.bm = TRUE, !.active = TRUE, !.buf = <<>>,
                                                !.buf_pos = 0, !.after = st.after]
                              ELSE [l1 EXCEPT !.bm = TRUE, !.active = TRUE, !.buf = <<>>,
                                              !.buf_pos = 0,
                                              !.parent_anchor = st.parent_anchor,
                                              !.child_present = st.child_present,
                                              !.L = st.L, !.left_idx = st.left_idx,
                                              !.right_idx = st.right_idx]]

\* the body of try_fill_empty_lane once position ppos was taken from the head
bind_lane(lane, ppos, shardIdx, a, ix) ==
  LET l1 == [lane EXCEPT !.perm_pos = ppos, !.shardIdx = shardIdx]
  IN  IF ~load_kbit_portable(shardIdx) THEN l1
      ELSE IF kout_of(a, ix) = ix.k
        THEN [l1 EXCEPT !.bm = TRUE, !.buf = <<>>, !.buf_pos = 0, !.active = TRUE,
                        !.after = UINT64_MAX]
      ELSE [l1 EXCEPT !.bm = TRUE, !.buf = <<>>, !.buf_pos = 0, !.active = TRUE,
                      !.parent_anchor = UINT64_MAX, !.child_present = FALSE,
                      !.L = 0, !.left_idx = 0, !.right_idx = 0]

\* try_fill_empty_lane run by one thread alone: [lane, npp]
try_fill_empty_lane(lane, npp, a, ix, pm) ==
  IF lane.active THEN [lane |-> lane, npp |-> npp]
  ELSE IF npp < ix.num_shards
    THEN [lane |-> bind_lane(lane, npp, pm[npp], a, ix), npp |-> npp + 1]
  ELSE [lane |-> lane, npp |-> npp]

\* for (i = 0; i < window; i++) if (!lanes[i].active) try_fill_empty_lane(i)
RECURSIVE fill_lanes_from(_, _, _, _, _, _)
fill_lanes_from(ls, npp, i, a, ix, pm) ==
  IF i >= a.window THEN [lanes |-> ls, npp |-> npp]
  ELSE LET r == try_fill_empty_lane(ls[i], npp, a, ix, pm)
       IN  fill_lanes_from([ls EXCEPT ![i] = r.lane], r.npp, i + 1, a, ix, pm)

\* main() from the argument checks to the entry of the scan loop:
\* [ok, seed, perm, lanes, npp]
StartupFailed == [ok |-> FALSE, seed |-> 0, perm |-> <<>>, lanes |-> <<>>, npp |-> 0]

\* the entry of the scan loop: filled is what the initial fill left
startup_done(filled, sd, pm) ==
  [ok |-> TRUE, seed |-> sd, perm |-> pm, lanes |-> filled.lanes, npp |-> filled.npp]

\* the load loop over the cursor's lanes, then the initial fill
startup_lanes(lane_states, npp0, sd, pm, a, ix) ==
  startup_done(fill_lanes_from([i \in 0..(a.window - 1) |->
                                  IF i < Len(lane_states) /\ lane_states[i + 1].active
                                    THEN load_lane_from_state(LaneRuntime, lane_states[i + 1],
                                                              a, ix, pm).lane
                                  ELSE LaneRuntime],
                               npp0, 0, a, ix, pm),
               sd, pm)

\* the permutation of seed sd
startup_seeded(lane_states, npp0, sd, a, ix) ==
  startup_lanes(lane_states, npp0, sd,
                IF a.random_access THEN build_perm(ix.num_shards, sd)
                ELSE identity_perm(ix.num_shards),
                a, ix)

\* fault injection: a resume that takes the seed of the request
startup_from_request_seed(pc0, a, ix) ==
  IF a.cursor_set /\ ~pc0.ok THEN StartupFailed
  ELSE IF a.cursor_set /\ ~cursor_matches(pc0.c, a, ix) THEN StartupFailed
  ELSE startup_seeded(IF a.cursor_set THEN pc0.c.lanes ELSE [i \in 1..a.window |-> LaneState],
                      IF a.cursor_set THEN pc0.c.next_perm_pos ELSE 0,
                      seed_of_args(a),
                      a, ix)

\* the cursor pc0, if one was given: validation, seed, lane states, head
startup_from(pc0, a, ix) ==
  IF a.cursor_set /\ ~pc0.ok THEN StartupFailed
  ELSE IF a.cursor_set /\ ~cursor_matches(pc0.c, a, ix) THEN StartupFailed
  ELSE startup_seeded(IF a.cursor_set THEN pc0.c.lanes ELSE [i \in 1..a.window |-> LaneState],
                      IF a.cursor_set THEN pc0.c.next_perm_pos ELSE 0,
                      IF a.cursor_set /\ a.random_access
                        THEN (IF pc0.c.seed = 0 THEN 1 ELSE pc0.c.seed)
                      ELSE seed_of_args(a),
                      a, ix)

startup(a, ix) ==
  IF ~k_checks_ok(a, ix) THEN StartupFailed
  ELSE IF a.substring_set /\ ~substring_ok(a.substring, kout_of(a, ix)) THEN StartupFailed
  ELSE startup_from(parse_cursor_bcw2(a.cursor_token), a, ix)

-----------------------------------------------------------------------------
\* main(): the scan loop.  An engine state is e = [lanes, npp, out].

any_active(ls) == \E i \in DOMAIN ls : ls[i].active

\* one iteration of a refill worker's loop for lane i, when one thread runs alone
\* the lane and the head after try_fill_empty_lane returned r
lane_rebound(e, i, r) == [e EXCEPT !.lanes[i] = r.lane, !.npp = r.npp]

\* if (!L.active) { L.free_all(); try_fill_empty_lane(i); }, l1 being the refilled lane
lane_refilled(e, i, l1, a, ix, pm) ==
  IF ~l1.active
    THEN lane_rebound(e, i, try_fill_empty_lane(free_all(l1), e.npp, a, ix, pm))
  ELSE [e EXCEPT !.lanes[i] = l1]

\* fault injection: a worker that refills a lane whose buffer is not drained yet
refill_job_eager(e, i, a, ix, pm) ==
  IF ~e.lanes[i].active THEN e
  ELSE lane_refilled(e, i,
                     refill_lane(e.lanes[i], filters_of(a, ix), a.refill_chunk,
                                 shard_starts(ix), shard_ends(ix)),
                     a, ix, pm)

refill_job(e, i, a, ix, pm) ==
  IF ~e.lanes[i].active THEN e
  ELSE IF e.lanes[i].buf_pos < Len(e.lanes[i].buf) THEN e
  ELSE lane_refilled(e, i,
                     refill_lane(e.lanes[i], filters_of(a, ix), a.refill_chunk,
                                 shard_starts(ix), shard_ends(ix)),
                     a, ix, pm)

\* the refill phase with a single worker: i = 0, 1, ..., window-1 in order
RECURSIVE refill_phase_from(_, _, _, _, _)
refill_phase_from(e, i, a, ix, pm) ==
  IF i >= a.window THEN e
  ELSE refill_phase_from(refill_job(e, i, a, ix, pm), i + 1, a, ix, pm)

\* while (took < burst && out_vals.size() < need) for lane i
RECURSIVE drain_lane(_, _, _, _, _, _)
drain_lane(e, i, took, need, a, ix) ==
  LET lane == e.lanes[i]
  IN  IF took < a.burst /\ Len(e.out) < need /\ ~(lane.buf_pos >= Len(lane.buf))
        THEN LET v  == lane.buf[lane.buf_pos + 1]
                 l1 == IF kout_of(a, ix) = ix.k
                         THEN [lane EXCEPT !.buf_pos = @ + 1, !.after = v]
                       ELSE [lane EXCEPT !.buf_pos = @ + 1]
             IN  drain_lane([e EXCEPT !.lanes[i] = l1, !.out = Append(@, v)],
                            i, took + 1, need, a, ix)
      ELSE e

\* for (i = 0; i < window && out_vals.size() < need; ++i)
RECURSIVE drain_round_from(_, _, _, _, _)
drain_round_from(e, i, need, a, ix) ==
  IF i < a.window /\ Len(e.out) < need
    THEN drain_round_from(IF e.lanes[i].active THEN drain_lane(e, i, 0, need, a, ix) ELSE e,
                          i + 1, need, a, ix)
  ELSE e

drain_round(e, need, a, ix) == drain_round_from(e, 0, need, a, ix)

\* the loop runs another iteration
loop_continues(e, need) == Len(e.out) < need /\ any_active(e.lanes)

\* the whole scan loop with a single refill worker
RECURSIVE scan_loop(_, _, _, _, _)

\* if (out_vals.size() == before && !any_active) break, e2 being the state after emission
loop_end(e, e2, need, a, ix, pm) ==
  IF Len(e2.out) = Len(e.out) /\ ~any_active(e2.lanes) THEN e2
  ELSE scan_loop(e2, need, a, ix, pm)

scan_loop(e, need, a, ix, pm) ==
  IF ~loop_continues(e, need) THEN e
  ELSE loop_end(e, drain_round(refill_phase_from(e, 0, a, ix, pm), need, a, ix), need, a, ix, pm)

-----------------------------------------------------------------------------
\* main(): hasMore, next cursor, output

\* fault injection: a page that always announces a successor
has_more_always(e, a, ix) == TRUE

\* fault injection: hasMore that overlooks the shards not yet handed to a lane
has_more_no_head(e, a, ix) ==
  IF Len(e.out) > a.limit THEN TRUE
  ELSE \E i \in DOMAIN e.lanes :
          /\ e.lanes[i].active
          /\ (e.lanes[i].buf_pos < Len(e.lanes[i].buf) \/ kout_of(a, ix) > ix.k)

has_more(e, a, ix) ==
  IF Len(e.out) > a.limit THEN TRUE
  ELSE \/ \E i \in DOMAIN e.lanes :
            /\ e.lanes[i].active
            /\ (e.lanes[i].buf_pos < Len(e.lanes[i].buf) \/ kout_of(a, ix) > ix.k)
       \/ e.npp < ix.num_shards

truncated(e, a) == IF Len(e.out) > a.limit THEN SubSeq(e.out, 1, a.limit) ELSE e.out

lane_state_of(lane, a, ix) ==
  IF ~lane.active THEN LaneState
  ELSE IF kout_of(a, ix) = ix.k
    THEN [LaneState EXCEPT !.active = TRUE, !.perm_pos = lane.perm_pos, !.mode = 0,
                           !.after = lane.after]
  ELSE [LaneState EXCEPT !.active = TRUE, !.perm_pos = lane.perm_pos, !.mode = 1,
                         !.parent_anchor = lane.parent_anchor,
                         !.child_present = lane.child_present, !.L = lane.L,
                         !.left_idx = lane.left_idx, !.right_idx = lane.right_idx]

next_cursor(e, sd, a, ix) ==
  [WindowCursor EXCEPT
     !.flags = IF a.random_access THEN 1 ELSE 0,
     !.k0 = ix.k % 256, !.kout = kout_of(a, ix) % 256, !.d = (kout_of(a, ix) - ix.k) % 256,
     !.numShards = ix.num_shards, !.seed = sd, !.next_perm_pos = e.npp,
     !.window = a.window, !.burst = a.burst,
     !.lanes = [i \in 1..a.window |-> lane_state_of(e.lanes[i - 1], a, ix)]]

\* the __META__ line
meta_line(e, sd, a, ix) ==
  [cursor |-> IF has_more(e, a, ix) THEN make_cursor_bcw2(next_cursor(e, sd, a, ix)) ELSE <<>>,
   hasMore |-> IF has_more(e, a, ix) THEN "1" ELSE "0",
   count |-> Len(truncated(e, a)),
   kout |-> kout_of(a, ix)]

kmer_lines(e, a, ix) ==
  [j \in 1..Len(truncated(e, a)) |-> decode_kmer(truncated(e, a)[j], kout_of(a, ix))]

\* one whole process run by a single refill worker: [ok, keys, meta]
\* the page written from the final engine state e
page_of(e, sd, a, ix) ==
  [ok |-> TRUE, keys |-> truncated(e, a), meta |-> meta_line(e, sd, a, ix)]

\* the scan loop and the output, s being what start-up left
run_started(s, a, ix) ==
  IF ~s.ok
    THEN [ok |-> FALSE, keys |-> <<>>,
          meta |-> [cursor |-> <<>>, hasMore |-> "0", count |-> 0, kout |-> 0]]
  ELSE page_of(scan_loop([lanes |-> s.lanes, npp |-> s.npp, out |-> <<>>],
                         a.limit + 1, a, ix, s.perm),
               s.seed, a, ix)

run_query(a, ix) == run_started(startup(a, ix), a, ix)

\* the pages obtained by chaining the cursor from request a, at most n of them:
\* [keys, done] where done says the last page had hasMore = '0'
RECURSIVE run_chain(_, _, _)

\* the chain's keys: page r followed by the pages rest
chain_joined(r, rest) == [keys |-> r.keys \o rest.keys, done |-> rest.done]

\* the chain after its first page r
chain_after(r, a, ix, n) ==
  IF ~r.ok \/ r.meta.hasMore = "0" THEN [keys |-> r.keys, done |-> r.ok]
  ELSE chain_joined(r, run_chain([a EXCEPT !.cursor_set = TRUE,
                                          !.cursor_token = r.meta.cursor], ix, n - 1))

run_chain(a, ix, n) ==
  IF n = 0 THEN [keys |-> <<>>, done |-> FALSE]
  ELSE chain_after(run_query(a, ix), a, ix, n)

-----------------------------------------------------------------------------
\* The streaming search as a state machine: one process per page, the client
\* chaining pages by passing the returned cursor back unchanged.

engine == [lanes |-> lanes, npp |-> next_perm_pos, out |-> out_vals]

need == args.limit + 1

NoMeta == [cursor |-> <<>>, hasMore |-> "0", count |-> 0, kout |-> 0]

XsIdle == [on |-> FALSE]
CcIdle == [on |-> FALSE]
MqIdle == [on |-> FALSE]
BpIdle == [on |-> FALSE]
KqIdle == [on |-> FALSE]
KfIdle == [on |-> FALSE]
WkIdle == <<>>

\* main() up to the scan loop
Start ==
  /\ pc = "start"
  /\ \E s \in {startup(args, index)} :
         IF s.ok
           THEN /\ seed' = s.seed
                /\ perm' = s.perm
                /\ lanes' = s.lanes
                /\ next_perm_pos' = s.npp
                /\ pc' = "loop"
         ELSE /\ pc' = "failed"
              /\ UNCHANGED <<seed, perm, lanes, next_perm_pos>>
  /\ out_vals' = <<>>
  /\ UNCHANGED <<index, present, loadable, args, meta, stdout, chain, pages, idx, wk, xs, cc, mq, bp, kq, kf>>

\* the number of refill workers: T = min(args.threads, args.window)
pool_size == Min(args.threads, args.window)

\* loop test and, with one worker, the whole refill phase
LoopHead ==
  /\ pc = "loop"
  /\ pool_size = 1
  /\ IF loop_continues(engine, need)
       THEN \E e1 \in {refill_phase_from(engine, 0, args, index, perm)} :
                /\ lanes' = e1.lanes
                /\ next_perm_pos' = e1.npp
                /\ pc' = "drain"
     ELSE /\ pc' = "finish"
          /\ UNCHANGED <<lanes, next_perm_pos>>
  /\ UNCHANGED <<index, present, loadable, args, seed, out_vals, perm, meta, stdout, chain,
                 pages, idx, wk, xs, cc, mq, bp, kq, kf>>

\* round-robin emission and the loop's exit test
Drain ==
  /\ pc = "drain"
  /\ \E e2 \in {drain_round(engine, need, args, index)} :
         /\ lanes' = e2.lanes
         /\ out_vals' = e2.out
         /\ pc' = IF Len(e2.out) = Len(out_vals) /\ ~any_active(e2.lanes) THEN "finish" ELSE "loop"
  /\ UNCHANGED <<index, present, loadable, args, seed, next_perm_pos, perm, meta, stdout, chain,
                 pages, idx, wk, xs, cc, mq, bp, kq, kf>>

\* hasMore, the next cursor, the __META__ line and the k-mers
Finish ==
  /\ pc = "finish"
  /\ out_vals' = truncated(engine, args)
  /\ meta' = meta_line(engine, seed, args, index)
  /\ stdout' = kmer_lines(engine, args, index)
  /\ chain' = chain \o truncated(engine, args)
  /\ pages' = pages + 1
  /\ pc' = "done"
  /\ UNCHANGED <<index, present, loadable, args, seed, lanes, next_perm_pos, perm, idx, wk, xs, cc, mq, bp, kq, kf>>

\* the client asks for the next page with the cursor it was given
Resume ==
  /\ pc = "done"
  /\ meta.hasMore = "1"
  /\ pages < MaxPages
  /\ args' = [args EXCEPT !.cursor_set = TRUE, !.cursor_token = meta.cursor]
  /\ pc' = "start"
  /\ lanes' = <<>>
  /\ out_vals' = <<>>
  /\ next_perm_pos' = 0
  /\ seed' = 0
  /\ perm' = <<>>
  /\ UNCHANGED <<index, present, loadable, meta, stdout, chain, pages, idx, wk, xs, cc, mq, bp, kq, kf>>

\* ---- the inputs explored ----

Windows == {1, 2}
Bursts == {1, 2}
\* --refill_chunk (at least 16 in production, scaled with the shard width)
RefillChunks == {1, 2}
\* --gc-min, --gc-max, --substring, --reverse_complement
NoFilter == [gcMinPct |-> 0, gcMaxPct |-> 100, substring |-> <<>>, reverse_complement |-> FALSE]

FilterArgs ==
  { NoFilter,
    [gcMinPct |-> 50, gcMaxPct |-> 100, substring |-> <<>>, reverse_complement |-> FALSE],
    [gcMinPct |-> 0, gcMaxPct |-> 100, substring |-> <<"C">>, reverse_complement |-> TRUE] }
ConstructKs == {-1} \cup {K0 + d : d \in 1..MaxD}
RaSeed == 12345

TheIndex == [num_shards |-> NumShards, k |-> K0, total_bits |-> NumShards * ShardWidth]

\* one request without cursor
Request(f, n, t, ck, ra, w, b, rc) ==
  [substring |-> f.substring, substring_set |-> f.substring # <<>>,
   reverse_complement |-> f.reverse_complement,
   gcMinPct |-> f.gcMinPct, gcMaxPct |-> f.gcMaxPct,
   limit |-> n, threads |-> t, construct_k |-> ck,
   cursor_set |-> FALSE, cursor_token |-> <<>>,
   random_access |-> ra, ra_seed |-> IF ra THEN RaSeed ELSE 0,
   window |-> w, burst |-> b, refill_chunk |-> rc]

\* the requests explored: every window / burst / refill_chunk / limit without filter
\* in shard order; every filter on two lanes; --random_access on two lanes
Requests(threadSet) ==
  { Request(NoFilter, n, t, ck, FALSE, w, b, rc) :
      n \in 1..MaxLimit, t \in threadSet, ck \in ConstructKs,
      w \in Windows, b \in Bursts, rc \in RefillChunks }
  \cup
  { Request(f, MaxLimit, t, ck, FALSE, 2, 1, 2) :
      f \in FilterArgs, t \in threadSet, ck \in ConstructKs }
  \cup
  { Request(NoFilter, MaxLimit, t, ck, TRUE, 2, 1, rc) :
      t \in threadSet, ck \in ConstructKs, rc \in RefillChunks }

\* the state of a process about to run the first page of a chain
EngineInit(reqs, ix, dbs) ==
  /\ index = ix
  /\ present \in dbs
  /\ loadable = 0..(ix.num_shards - 1)
  /\ args \in reqs
  /\ pc = "start"
  /\ seed = 0
  /\ perm = <<>>
  /\ lanes = <<>>
  /\ next_perm_pos = 0
  /\ out_vals = <<>>
  /\ meta = NoMeta
  /\ stdout = <<>>
  /\ chain = <<>>
  /\ pages = 0
  /\ idx = 0
  /\ wk = WkIdle

\* no streaming process at all
EngineIdle ==
  /\ index = TheIndex
  /\ present = {}
  /\ loadable = {}
  /\ args = Request(NoFilter, 1, 1, -1, FALSE, 1, 1, 1)
  /\ pc = "idle"
  /\ seed = 0
  /\ perm = <<>>
  /\ lanes = <<>>
  /\ next_perm_pos = 0
  /\ out_vals = <<>>
  /\ meta = NoMeta
  /\ stdout = <<>>
  /\ chain = <<>>
  /\ pages = 0
  /\ idx = 0
  /\ wk = WkIdle

Databases(ix) == SUBSET (0..(total_bits_of(ix) - 1))

\* an expansion query is explored on the databases with at most MaxAnchors absent anchors
few_anchors(ix) ==
  kout_of(args, ix) > ix.k =>
     Cardinality((0..(total_bits_of(ix) - 1)) \ present) <= MaxAnchors

Init ==
  /\ EngineInit(Requests({1}), TheIndex, Databases(TheIndex))
  /\ few_anchors(TheIndex)
  /\ xs = XsIdle
  /\ cc = CcIdle
  /\ mq = MqIdle
  /\ bp = BpIdle
  /\ kq = KqIdle
  /\ kf = KfIdle

Next == Start \/ LoopHead \/ Drain \/ Finish \/ Resume

Spec == Init /\ [][Next]_vars

-----------------------------------------------------------------------------
\* The refill phase run by a pool of T > 1 worker threads (specification SpecPar).
\* A worker owns lane i from the fetch_add that hands it i, so refill_lane is one step;
\* next_perm_pos is a plain uint32_t shared by the workers, so the loop test, the read
\* and the write of "next_perm_pos++" in try_fill_empty_lane are steps of their own.

\* atomic<int> idx(0) and the pool of T threads
Spawn ==
  /\ pc = "loop"
  /\ pool_size > 1
  /\ IF loop_continues(engine, need)
       THEN /\ idx' = 0
            /\ wk' = [t \in 1..pool_size |-> [pc |-> "fetch", i |-> 0, r |-> 0]]
            /\ pc' = "workers"
     ELSE /\ pc' = "finish"
          /\ UNCHANGED <<idx, wk>>
  /\ UNCHANGED <<index, present, loadable, args, seed, lanes, next_perm_pos, out_vals, perm,
                 meta, stdout, chain, pages, xs, cc, mq, bp, kq, kf>>

\* int i = idx.fetch_add(1); ... refill_lane(lanes[i]); if (!lanes[i].active) free_all()
WClaim(t) ==
  /\ pc = "workers"
  /\ wk[t].pc = "fetch"
  /\ idx' = idx + 1
  /\ LET i == idx
     IN  IF i >= args.window
           THEN /\ wk' = [wk EXCEPT ![t].pc = "exit"]
                /\ UNCHANGED lanes
         ELSE IF ~lanes[i].active \/ lanes[i].buf_pos < Len(lanes[i].buf)
           THEN UNCHANGED <<wk, lanes>>
         ELSE LET l1 == refill_lane(lanes[i], filters_of(args, index), args.refill_chunk,
                                    shard_starts(index), shard_ends(index))
              IN  IF ~l1.active
                    THEN /\ lanes' = [lanes EXCEPT ![i] = free_all(l1)]
                         /\ wk' = [wk EXCEPT ![t] = [pc |-> "fill_test", i |-> i, r |-> 0]]
                  ELSE /\ lanes' = [lanes EXCEPT ![i] = l1]
                       /\ UNCHANGED wk
  /\ UNCHANGED <<index, present, loadable, args, pc, seed, next_perm_pos, out_vals, perm,
                 meta, stdout, chain, pages, xs, cc, mq, bp, kq, kf>>

\* try_fill_empty_lane: while (next_perm_pos < numShards)
WFillTest(t) ==
  /\ pc = "workers"
  /\ wk[t].pc = "fill_test"
  /\ wk' = [wk EXCEPT ![t].pc = IF next_perm_pos < index.num_shards THEN "fill_read" ELSE "fetch"]
  /\ UNCHANGED <<index, present, loadable, args, pc, seed, lanes, next_perm_pos, out_vals, perm,
                 meta, stdout, chain, pages, idx, xs, cc, mq, bp, kq, kf>>

\* uint32_t ppos = next_perm_pos++ : the read
WFillRead(t) ==
  /\ pc = "workers"
  /\ wk[t].pc = "fill_read"
  /\ wk' = [wk EXCEPT ![t].pc = "fill_write", ![t].r = next_perm_pos]
  /\ UNCHANGED <<index, present, loadable, args, pc, seed, lanes, next_perm_pos, out_vals, perm,
                 meta, stdout, chain, pages, idx, xs, cc, mq, bp, kq, kf>>

\* what perm[ppos] yields: the entry, or for ppos past the end of the vector any
\* shard index, an index without shard file (num_shards), or a crash (-1)
shard_from_permpos(ppos) ==
  IF ppos < index.num_shards THEN {perm[ppos]} ELSE (0..index.num_shards) \cup {-1}

\* uint32_t ppos = next_perm_pos++ : the write, then the rest of try_fill_empty_lane
WFillWrite(t) ==
  /\ pc = "workers"
  /\ wk[t].pc = "fill_write"
  /\ next_perm_pos' = wk[t].r + 1
  /\ \E shardIdx \in shard_from_permpos(wk[t].r) :
        IF shardIdx < 0
          THEN /\ pc' = "failed"
               /\ UNCHANGED <<lanes, wk>>
        ELSE /\ lanes' = [lanes EXCEPT ![wk[t].i] = bind_lane(@, wk[t].r, shardIdx, args, index)]
             /\ wk' = [wk EXCEPT ![t].pc = "fetch"]
             /\ pc' = pc
  /\ UNCHANGED <<index, present, loadable, args, seed, out_vals, perm,
                 meta, stdout, chain, pages, idx, xs, cc, mq, bp, kq, kf>>

\* for (auto& th : pool) th.join()
Join ==
  /\ pc = "workers"
  /\ \A t \in DOMAIN wk : wk[t].pc = "exit"
  /\ pc' = "drain"
  /\ wk' = WkIdle
  /\ UNCHANGED <<index, present, loadable, args, seed, lanes, next_perm_pos, out_vals, perm,
                 meta, stdout, chain, pages, idx, xs, cc, mq, bp, kq, kf>>

\* an index of NumShards + 1 shards: two lanes can both be re-bound in one phase
ParIndex ==
  [num_shards |-> NumShards + 1, k |-> K0, total_bits |-> (NumShards + 1) * ShardWidth]

\* databases with at most MaxAnchors absent keys
ParDatabases ==
  {S \in Databases(ParIndex) : Cardinality((0..(total_bits_of(ParIndex) - 1)) \ S) <= MaxAnchors}

ParRequests ==
  { Request(NoFilter, MaxLimit, 2, ck, FALSE, 2, 1, rc) : ck \in ConstructKs, rc \in RefillChunks }

InitPar ==
  EngineInit(ParRequests, ParIndex, ParDatabases) /\ xs = XsIdle /\ cc = CcIdle /\ mq = MqIdle
  /\ bp = BpIdle /\ kq = KqIdle
  /\ kf = KfIdle

NextPar ==
  \/ Start
  \/ Spawn
  \/ \E t \in DOMAIN wk : WClaim(t)
  \/ \E t \in DOMAIN wk : WFillTest(t)
  \/ \E t \in DOMAIN wk : WFillRead(t)
  \/ \E t \in DOMAIN wk : WFillWrite(t)
  \/ Join
  \/ Drain
  \/ Finish
  \/ Resume

SpecPar == InitPar /\ [][NextPar]_vars

-----------------------------------------------------------------------------
\* The refill pool with the claim of a lane and the work on it as two steps
\* (specification SpecClaim): between "int i = idx.fetch_add(1)" and the call of
\* refill_lane(lanes[i]) the other workers run.

\* a counter whose increment is lost
idx_fetch_add_lost(x) == x

\* idx.fetch_add(1): the value stored back
idx_fetch_add(x) == x + 1

\* int i = idx.fetch_add(1); if (i >= window) break;
WTake(t) ==
  /\ pc = "workers"
  /\ wk[t].pc = "fetch"
  /\ idx' = idx_fetch_add(idx)
  /\ wk' = [wk EXCEPT ![t] = IF idx >= args.window THEN [@ EXCEPT !.pc = "exit"]
                             ELSE [@ EXCEPT !.pc = "own", !.i = idx]]
  /\ UNCHANGED <<index, present, loadable, args, pc, seed, lanes, next_perm_pos, out_vals, perm,
                 meta, stdout, chain, pages, xs, cc, mq, bp, kq, kf>>

\* the lane of worker t once refill_lane has left it as l1
lane_worked(ls, i, l1) == [ls EXCEPT ![i] = IF ~l1.active THEN free_all(l1) ELSE l1]

\* the two "continue" tests, refill_lane(lanes[i]), free_all() of a retired lane
WWork(t) ==
  /\ pc = "workers"
  /\ wk[t].pc = "own"
  /\ IF ~lanes[wk[t].i].active \/ lanes[wk[t].i].buf_pos < Len(lanes[wk[t].i].buf)
       THEN /\ wk' = [wk EXCEPT ![t].pc = "fetch"]
            /\ UNCHANGED lanes
     ELSE \E l1 \in {refill_lane(lanes[wk[t].i], filters_of(args, index), args.refill_chunk,
                                 shard_starts(index), shard_ends(index))} :
             /\ lanes' = lane_worked(lanes, wk[t].i, l1)
             /\ wk' = [wk EXCEPT ![t].pc = IF ~l1.active THEN "fill_test" ELSE "fetch"]
  /\ UNCHANGED <<index, present, loadable, args, pc, seed, next_perm_pos, out_vals, perm,
                 meta, stdout, chain, pages, idx, xs, cc, mq, bp, kq, kf>>

NextClaim ==
  \/ Start
  \/ Spawn
  \/ \E t \in DOMAIN wk : WTake(t)
  \/ \E t \in DOMAIN wk : WWork(t)
  \/ \E t \in DOMAIN wk : WFillTest(t)
  \/ \E t \in DOMAIN wk : WFillRead(t)
  \/ \E t \in DOMAIN wk : WFillWrite(t)
  \/ Join
  \/ Drain
  \/ Finish
  \/ Resume

SpecClaim == InitPar /\ [][NextClaim]_vars

-----------------------------------------------------------------------------
\* The expansion state machine driven alone over one anchor (specification SpecExp)

\* largest d = kout - k0 enumerated
MaxExpD == 2

\* one iteration of "while (!exhausted_parent ...)": make_value, then advance_state
ExpStep ==
  /\ xs.on
  /\ ~xs.done
  /\ LET a == advance_state(xs.d, [L |-> xs.L, left_idx |-> xs.left_idx, right_idx |-> xs.right_idx])
     IN  xs' = [xs EXCEPT
                  !.seen = Append(@, make_value(xs.B, K0, K0 + xs.d, xs.L, xs.left_idx, xs.right_idx)),
                  !.L = a.L, !.left_idx = a.left_idx, !.right_idx = a.right_idx,
                  !.done = ~a.ok]
  /\ UNCHANGED <<engineVars, cc, mq, bp, kq, kf>>

InitExp ==
  /\ EngineIdle
  /\ cc = CcIdle
  /\ mq = MqIdle
  /\ bp = BpIdle
  /\ kq = KqIdle
  /\ kf = KfIdle
  /\ \E d \in 1..MaxExpD, B \in 0..(pow4(K0) - 1) :
        xs = [on |-> TRUE, d |-> d, B |-> B, L |-> init_state_first(d).L,
              left_idx |-> init_state_first(d).left_idx,
              right_idx |-> init_state_first(d).right_idx,
              done |-> FALSE, seen |-> <<>>]

NextExp == ExpStep

SpecExp == InitExp /\ [][NextExp]_vars

-----------------------------------------------------------------------------
\* The cursor codec driven alone (specification SpecCur)

\* largest number of lanes in a cursor
MaxLanes == 2
\* longest byte string given to the base64url layer
MaxBytes == 3

\* lane states: inactive (with stale fields), mode 0, mode 1 without and with child
LaneStates ==
  { LaneState,
    [LaneState EXCEPT !.perm_pos = 9, !.after = 7],
    [LaneState EXCEPT !.active = TRUE, !.perm_pos = 70000, !.after = 5],
    [LaneState EXCEPT !.active = TRUE, !.perm_pos = 1, !.after = UINT64_MAX, !.L = 3],
    [LaneState EXCEPT !.active = TRUE, !.perm_pos = 2, !.mode = 1, !.parent_anchor = 300,
                      !.L = 2, !.left_idx = 7],
    [LaneState EXCEPT !.active = TRUE, !.perm_pos = 255, !.mode = 1, !.parent_anchor = 4,
                      !.child_present = TRUE, !.L = 1, !.left_idx = 3, !.right_idx = 65536] }

CursorHeads ==
  { [WindowCursor EXCEPT !.flags = 1, !.k0 = 18, !.kout = 20, !.d = 2, !.numShards = 300,
                         !.seed = RaSeed, !.next_perm_pos = 257, !.window = 258, !.burst = 1],
    [WindowCursor EXCEPT !.k0 = 16, !.kout = 16, !.numShards = 70000, !.seed = UINT64_MAX,
                         !.window = 1, !.burst = 8],
    [WindowCursor EXCEPT !.present = TRUE, !.flags = 255, !.k0 = 255, !.kout = 255, !.d = 255,
                         !.numShards = 2147483647, !.seed = 1, !.next_perm_pos = 2147483647,
                         !.window = 65535, !.burst = 65535] }

RECURSIVE SeqsUpTo(_, _)
SeqsUpTo(S, n) ==
  IF n = 0 THEN {<<>>}
  ELSE LET shorter == SeqsUpTo(S, n - 1)
       IN  shorter \cup {Append(q, x) : q \in {r \in shorter : Len(r) = n - 1}, x \in S}

Cursors == {[h EXCEPT !.lanes = ls] : h \in CursorHeads, ls \in SeqsUpTo(LaneStates, MaxLanes)}

ByteStrings == SeqsUpTo({0, 1, 62, 251, 255}, MaxBytes)

CcFresh == [on |-> TRUE, kind |-> "cursor", c |-> WindowCursor, token |-> <<>>,
            parsed |-> [ok |-> FALSE, c |-> WindowCursor],
            bytes |-> <<>>, enc |-> <<>>, dec |-> [ok |-> FALSE, out |-> <<>>], step |-> 0]

\* token = make_cursor_bcw2(c)
CcMake ==
  /\ cc.on /\ cc.kind = "cursor" /\ cc.step = 0
  /\ cc' = [cc EXCEPT !.token = make_cursor_bcw2(cc.c), !.step = 1]
  /\ UNCHANGED <<engineVars, xs, mq, bp, kq, kf>>

\* parse_cursor_bcw2(token, in)
CcParse ==
  /\ cc.on /\ cc.kind = "cursor" /\ cc.step = 1
  /\ cc' = [cc EXCEPT !.parsed = parse_cursor_bcw2(cc.token), !.step = 2]
  /\ UNCHANGED <<engineVars, xs, mq, bp, kq, kf>>

\* enc = b64url_encode(bytes)
CcEncode ==
  /\ cc.on /\ cc.kind = "bytes" /\ cc.step = 0
  /\ cc' = [cc EXCEPT !.enc = b64url_encode(cc.bytes), !.step = 1]
  /\ UNCHANGED <<engineVars, xs, mq, bp, kq, kf>>

\* b64url_decode(enc, out)
CcDecode ==
  /\ cc.on /\ cc.kind = "bytes" /\ cc.step = 1
  /\ cc' = [cc EXCEPT !.dec = b64url_decode(cc.enc), !.step = 2]
  /\ UNCHANGED <<engineVars, xs, mq, bp, kq, kf>>

InitCur ==
  /\ EngineIdle
  /\ xs = XsIdle
  /\ mq = MqIdle
  /\ bp = BpIdle
  /\ kq = KqIdle
  /\ kf = KfIdle
  /\ \/ \E c \in Cursors : cc = [CcFresh EXCEPT !.c = c]
     \/ \E b \in ByteStrings : cc = [CcFresh EXCEPT !.kind = "bytes", !.bytes = b]

NextCur == CcMake \/ CcParse \/ CcEncode \/ CcDecode

SpecCur == InitCur /\ [][NextCur]_vars

-----------------------------------------------------------------------------
\* parse_cursor_bcw2 driven alone on tokens that no run has made: a token made
\* from a cursor and then damaged, or a header followed by arbitrary bytes.

MaxTail == 3

\* characters outside the base64url alphabet: '!', '+', '/', '='
BadChars == {33, 43, 47, 61}

\* the damaged forms of the token made from bytes b, each with the kind of the damage
DamagedTokens(b, token) ==
  { [kind |-> "badchar", token |-> [token EXCEPT ![i] = ch]] :
      i \in {1, (Len(token) + 1) \div 2, Len(token)}, ch \in BadChars }
  \cup
  { [kind |-> "short", token |-> b64url_encode(SubSeq(b, 1, n))] : n \in {0, 4, 29} }
  \cup
  { [kind |-> "magic", token |-> b64url_encode([b EXCEPT ![j] = (b[j] + 1) % 256])] : j \in 1..4 }
  \cup
  { [kind |-> "cut", token |-> b64url_encode(SubSeq(b, 1, n))] : n \in 30..(Len(b) - 1) }

\* the header of b with lane_count = n, followed by the bytes tail
TailTokens(b) ==
  { [kind |-> "tail",
     token |-> b64url_encode(SubSeq(b, 1, 28) \o <<n, 0>> \o tail)] :
      n \in 0..MaxTail, tail \in SeqsUpTo({0, 1, 255}, MaxTail) }

\* the token is damaged on its way back to the program
CcDamage ==
  /\ cc.on /\ cc.kind = "cursor" /\ cc.step = 1
  /\ \E d \in DamagedTokens(cursor_bytes(cc.c), cc.token)
              \cup (IF cc.c.lanes = <<>> THEN TailTokens(cursor_bytes(cc.c)) ELSE {}) :
        cc' = [cc EXCEPT !.kind = d.kind, !.token = d.token]
  /\ UNCHANGED <<engineVars, xs, mq, bp, kq, kf>>

\* parse_cursor_bcw2(token, in) on the damaged token; dec is what b64url_decode gave it
CcParseToken ==
  /\ cc.on /\ cc.kind \notin {"cursor", "bytes"} /\ cc.step = 1
  /\ cc' = [cc EXCEPT !.parsed = parse_cursor_bcw2(cc.token),
                      !.dec = b64url_decode(cc.token), !.step = 2]
  /\ UNCHANGED <<engineVars, xs, mq, bp, kq, kf>>

InitTok ==
  /\ EngineIdle
  /\ xs = XsIdle
  /\ mq = MqIdle
  /\ bp = BpIdle
  /\ kq = KqIdle
  /\ kf = KfIdle
  /\ \E c \in Cursors : cc = [CcFresh EXCEPT !.c = c]

NextTok == CcMake \/ CcDamage \/ CcParseToken

SpecTok == InitTok /\ [][NextTok]_vars

-----------------------------------------------------------------------------
\* A cursor replayed with another request: the client takes the cursor of the
\* first page and presents it with a request, and against an index, that may
\* differ from the ones that made it.

MaxReplays == 1

\* the index.json files a replay may run against
ReplayIndexes ==
  { TheIndex, [TheIndex EXCEPT !.num_shards = NumShards - 1], [TheIndex EXCEPT !.k = K0 - 1] }

Replay ==
  /\ pc = "done"
  /\ meta.hasMore = "1"
  /\ pages <= MaxReplays
  /\ \E w \in Windows, b \in Bursts, ra \in BOOLEAN, ck \in ConstructKs, n \in 1..MaxLimit,
        rc \in RefillChunks :
        args' = [Request(NoFilter, n, 1, ck, ra, w, b, rc)
                   EXCEPT !.cursor_set = TRUE, !.cursor_token = meta.cursor]
  /\ index' \in ReplayIndexes
  /\ pc' = "start"
  /\ lanes' = <<>>
  /\ out_vals' = <<>>
  /\ next_perm_pos' = 0
  /\ seed' = 0
  /\ perm' = <<>>
  /\ UNCHANGED <<present, loadable, meta, stdout, chain, pages, idx, wk, xs, cc, mq, bp, kq, kf>>

ReplayRequests ==
  { Request(NoFilter, 1, 1, ck, ra, w, b, 1) :
      ck \in ConstructKs, ra \in BOOLEAN, w \in Windows, b \in Bursts }

\* the databases with at most one key stored
ReplayDatabases == {d \in Databases(TheIndex) : Cardinality(d) <= 1}

InitReplay ==
  /\ EngineInit(ReplayRequests, TheIndex, ReplayDatabases)
  /\ xs = XsIdle
  /\ cc = CcIdle
  /\ mq = MqIdle
  /\ bp = BpIdle
  /\ kq = KqIdle
  /\ kf = KfIdle

NextReplay == Start \/ LoopHead \/ Drain \/ Finish \/ Replay

SpecReplay == InitReplay /\ [][NextReplay]_vars

-----------------------------------------------------------------------------
\* The streaming search on shards wider than --refill_chunk: a refill can leave a
\* lane active with several keys buffered (specification SpecWide).

\* keys per shard of the wide shard set
WideWidth == 3

WideIndex == [num_shards |-> 2, k |-> K0, total_bits |-> 2 * WideWidth]

WideRequests ==
  { Request(NoFilter, n, 1, -1, FALSE, 2, b, rc) :
      n \in 1..MaxLimit, b \in Bursts, rc \in RefillChunks }

InitWide ==
  /\ EngineInit(WideRequests, WideIndex, Databases(WideIndex))
  /\ xs = XsIdle
  /\ cc = CcIdle
  /\ mq = MqIdle
  /\ bp = BpIdle
  /\ kq = KqIdle
  /\ kf = KfIdle

NextWide == Start \/ LoopHead \/ Drain \/ Finish \/ Resume

SpecWide == InitWide /\ [][NextWide]_vars

-----------------------------------------------------------------------------
\* One lane expanded in a page long enough to hold every child of an anchor
\* (specification SpecLong).

\* --limit above the number of children of one anchor
LongLimit == (MaxD + 1) * pow4(MaxD) + pow4(MaxD)

LongRequests ==
  { Request(NoFilter, LongLimit, 1, K0 + MaxD, FALSE, 1, b, rc) :
      b \in Bursts, rc \in RefillChunks }

InitLong ==
  /\ EngineInit(LongRequests, TheIndex, Databases(TheIndex))
  /\ few_anchors(TheIndex)
  /\ xs = XsIdle
  /\ cc = CcIdle
  /\ mq = MqIdle
  /\ bp = BpIdle
  /\ kq = KqIdle
  /\ kf = KfIdle

NextLong == Start \/ LoopHead \/ Drain \/ Finish

SpecLong == InitLong /\ [][NextLong]_vars

-----------------------------------------------------------------------------
\* A fresh query run to its __META__ line, --burst being given as any integer the
\* command line accepts (specification SpecTerm).

\* values given to --burst
BurstArgs == {0, 1, 2, 65536}

\* a.burst = (uint16_t)max(1, stoi(argv[++i]))
burst_of_arg(x) == (IF x < 1 THEN 1 ELSE x) % 65536

TermRequests ==
  { Request(NoFilter, n, 1, ck, FALSE, w, burst_of_arg(b), rc) :
      n \in 1..MaxLimit, ck \in ConstructKs, w \in Windows, b \in BurstArgs,
      rc \in RefillChunks }

InitTerm ==
  /\ EngineInit(TermRequests, TheIndex, Databases(TheIndex))
  /\ few_anchors(TheIndex)
  /\ xs = XsIdle
  /\ cc = CcIdle
  /\ mq = MqIdle
  /\ bp = BpIdle
  /\ kq = KqIdle
  /\ kf = KfIdle

NextTerm == Start \/ LoopHead \/ Drain \/ Finish

SpecTerm == InitTerm /\ [][NextTerm]_vars

-----------------------------------------------------------------------------
\* A query resumed from a cursor the client wrote itself: header fields that agree
\* with the request, any head, any lane records (specification SpecForged).

\* lane records of a forged cursor: inactive; mode 0 unstarted; mode 0 with after at
\* the end of its shard; mode 0 past the end; a position that is no shard; mode 1 in
\* the middle of an anchor; mode 1 with L > d and indices out of range
ForgedLanes ==
  { LaneState,
    [LaneState EXCEPT !.active = TRUE, !.perm_pos = 0, !.after = UINT64_MAX],
    [LaneState EXCEPT !.active = TRUE, !.perm_pos = 0, !.after = ShardWidth],
    [LaneState EXCEPT !.active = TRUE, !.perm_pos = 1, !.after = NumShards * ShardWidth],
    [LaneState EXCEPT !.active = TRUE, !.perm_pos = NumShards, !.after = 0],
    [LaneState EXCEPT !.active = TRUE, !.perm_pos = 1, !.mode = 1, !.parent_anchor = ShardWidth + 1,
                      !.child_present = TRUE, !.L = 1, !.left_idx = 1, !.right_idx = 0],
    [LaneState EXCEPT !.active = TRUE, !.perm_pos = 2, !.mode = 1,
                      !.parent_anchor = NumShards * ShardWidth,
                      !.child_present = TRUE, !.L = MaxD + 1, !.left_idx = pow4(MaxD + 1),
                      !.right_idx = pow4(MaxD)] }

\* next_perm_pos of a forged cursor
ForgedHeads == {0, 2, NumShards, NumShards + 1}

forged_cursor(a, npp, ls) ==
  [WindowCursor EXCEPT
     !.flags = 0, !.k0 = TheIndex.k % 256, !.kout = kout_of(a, TheIndex) % 256,
     !.d = (kout_of(a, TheIndex) - TheIndex.k) % 256,
     !.numShards = TheIndex.num_shards, !.seed = 0, !.next_perm_pos = npp,
     !.window = a.window, !.burst = a.burst, !.lanes = ls]

\* the requests that carry a forged cursor of at most window + 1 lane records
ForgedRequests ==
  UNION { { [a EXCEPT !.cursor_set = TRUE,
                      !.cursor_token = make_cursor_bcw2(forged_cursor(a, npp, ls))] :
              npp \in ForgedHeads, ls \in SeqsUpTo(ForgedLanes, a.window + 1) } :
          a \in { Request(NoFilter, 1, 1, ck, FALSE, w, 1, 1) :
                    ck \in ConstructKs, w \in Windows } }

InitForged ==
  /\ EngineInit(ForgedRequests, TheIndex, ReplayDatabases)
  /\ xs = XsIdle
  /\ cc = CcIdle
  /\ mq = MqIdle
  /\ bp = BpIdle
  /\ kq = KqIdle
  /\ kf = KfIdle

NextForged == Start \/ LoopHead \/ Drain \/ Finish

SpecForged == InitForged /\ [][NextForged]_vars

-----------------------------------------------------------------------------
\* Fresh queries against index.json files without start/end, of any number of
\* shards and any total_bits (specification SpecRanges).

\* largest num_shards and total_bits of such an index.json
MaxRangeShards == 4
MaxRangeBits == 6

RangeIndexes ==
  { [num_shards |-> n, k |-> K0, total_bits |-> t] : n \in 1..MaxRangeShards, t \in 1..MaxRangeBits }

RangeRequests ==
  { Request(NoFilter, n, 1, -1, FALSE, w, 1, 1) : n \in 1..MaxLimit, w \in Windows }

InitRanges ==
  /\ \E ix \in RangeIndexes :
        EngineInit(RangeRequests, ix, {{}, 0..(total_bits_of(ix) - 1)})
  /\ xs = XsIdle
  /\ cc = CcIdle
  /\ mq = MqIdle
  /\ bp = BpIdle
  /\ kq = KqIdle
  /\ kf = KfIdle

NextRanges == Start \/ LoopHead \/ Drain \/ Finish

SpecRanges == InitRanges /\ [][NextRanges]_vars

-----------------------------------------------------------------------------
\* A chain in --random_access order whose client passes another --ra_seed with
\* the cursor.

\* --ra_seed values of a request
SeedArgs == {0, 2, RaSeed}

ResumeSeed ==
  /\ pc = "done"
  /\ meta.hasMore = "1"
  /\ pages < MaxPages
  /\ \E sd \in SeedArgs :
        args' = [args EXCEPT !.cursor_set = TRUE, !.cursor_token = meta.cursor, !.ra_seed = sd]
  /\ pc' = "start"
  /\ lanes' = <<>>
  /\ out_vals' = <<>>
  /\ next_perm_pos' = 0
  /\ seed' = 0
  /\ perm' = <<>>
  /\ UNCHANGED <<index, present, loadable, meta, stdout, chain, pages, idx, wk, xs, cc, mq, bp, kq, kf>>

SeedRequests ==
  { [Request(NoFilter, n, 1, ck, TRUE, w, 1, 1) EXCEPT !.ra_seed = sd] :
      n \in 1..MaxLimit, ck \in ConstructKs, w \in Windows, sd \in SeedArgs }

\* the databases with one key stored, or one key absent
SeedDatabases ==
  {d \in Databases(TheIndex) : Cardinality(d) \in {1, total_bits_of(TheIndex) - 1}}

InitSeed ==
  /\ EngineInit(SeedRequests, TheIndex, SeedDatabases)
  /\ few_anchors(TheIndex)
  /\ xs = XsIdle
  /\ cc = CcIdle
  /\ mq = MqIdle
  /\ bp = BpIdle
  /\ kq = KqIdle
  /\ kf = KfIdle

NextSeed == Start \/ LoopHead \/ Drain \/ Finish \/ ResumeSeed

SpecSeed == InitSeed /\ [][NextSeed]_vars

-----------------------------------------------------------------------------
\* Shard files that do not load: the streaming search on a shard set some of
\* whose .kbit files load_kbit_portable rejects (missing, short, bad magic, flags
\* other than 2, undecodable), and shard files that break between two pages.

\* the client resumes with the cursor it was given after shard file s broke
ResumeBroken ==
  /\ pc = "done"
  /\ meta.hasMore = "1"
  /\ pages < MaxPages
  /\ \E sh \in loadable : loadable' = loadable \ {sh}
  /\ args' = [args EXCEPT !.cursor_set = TRUE, !.cursor_token = meta.cursor]
  /\ pc' = "start"
  /\ lanes' = <<>>
  /\ out_vals' = <<>>
  /\ next_perm_pos' = 0
  /\ seed' = 0
  /\ perm' = <<>>
  /\ UNCHANGED <<index, present, meta, stdout, chain, pages, idx, wk, xs, cc, mq, bp, kq, kf>>

IoRequests ==
  { Request(NoFilter, n, 1, ck, FALSE, w, 1, 1) :
      n \in 1..MaxLimit, ck \in ConstructKs, w \in Windows }

InitIo ==
  /\ index = TheIndex
  /\ present \in ReplayDatabases
  /\ loadable \in SUBSET (0..(TheIndex.num_shards - 1))
  /\ args \in IoRequests
  /\ pc = "start"
  /\ seed = 0
  /\ perm = <<>>
  /\ lanes = <<>>
  /\ next_perm_pos = 0
  /\ out_vals = <<>>
  /\ meta = NoMeta
  /\ stdout = <<>>
  /\ chain = <<>>
  /\ pages = 0
  /\ idx = 0
  /\ wk = WkIdle
  /\ xs = XsIdle
  /\ cc = CcIdle
  /\ mq = MqIdle
  /\ bp = BpIdle
  /\ kq = KqIdle
  /\ kf = KfIdle

NextIo == Start \/ LoopHead \/ Drain \/ Finish \/ Resume \/ ResumeBroken

SpecIo == InitIo /\ [][NextIo]_vars

-----------------------------------------------------------------------------
\* The membership query (query_kmer_bitmap --shards): the input k-mers are bucketed
\* by shard, a pool of workers claims the shards through an atomic counter, loads
\* each shard that has a bucket and probes it, and the lines are emitted in input
\* order.  A k-mer is represented by its 2-bit encoding; -1 is an empty input line.

MaxQueries == 2

BlankLine == -1

\* ShardInfo of index.json: [start, end) of every shard
shard_infos(ix) ==
  [i \in 0..(ix.num_shards - 1) |-> [start |-> shard_starts(ix)[i], end |-> shard_ends(ix)[i]]]

\* index.json without start/end fields: read_index_shards leaves both at 0
shard_infos_missing(ix) == [i \in 0..(ix.num_shards - 1) |-> [start |-> 0, end |-> 0]]

shards_size(shards) == Cardinality(DOMAIN shards)

RECURSIVE find_shard_in(_, _, _, _)
find_shard_at(shards, v, lo, hi, mid) ==
  IF v < shards[mid].start THEN find_shard_in(shards, v, lo, mid)
  ELSE IF v >= shards[mid].end THEN find_shard_in(shards, v, mid + 1, hi)
  ELSE mid

find_shard_in(shards, v, lo, hi) ==
  IF lo < hi THEN find_shard_at(shards, v, lo, hi, lo + ((hi - lo) \div 2)) ELSE -1

find_shard(shards, v) ==
  IF shards_size(shards) = 0 THEN -1 ELSE find_shard_in(shards, v, 0, shards_size(shards))

\* the read loop: empty lines are skipped
read_kmers(lines) == SelectSeq(lines, LAMBDA v : v # BlankLine)

\* the bucketing loop: shard_to_indices[sid].push_back(i) for i in input order
RECURSIVE bucket_fill(_, _, _, _)
bucket_fill(shards, vals, i, b) ==
  IF i > Len(vals) THEN b
  ELSE bucket_fill(shards, vals, i + 1, [b EXCEPT ![find_shard(shards, vals[i])] = Append(@, i)])

\* a counter whose increment is lost
fetch_add_lost(x) == x

\* next_shard.fetch_add(1): the value stored back
fetch_add(x) == x + 1

\* a pool that opens every shard it claims
bucket_never_empty(b) == FALSE

\* shard_to_indices[sid].empty()
bucket_empty(b) == b = <<>>

\* one output line: the k-mer and its hit character
out_line(v, h) == <<v, h>>

\* the sequential part of main() up to the creation of the pool
mq_started(q, vals) ==
  IF \E s \in DOMAIN q.shards : q.shards[s].end <= q.shards[s].start
    THEN [q EXCEPT !.pc = "failed", !.rc = 2, !.kmer_vals = vals]
  ELSE IF \E i \in 1..Len(vals) : find_shard(q.shards, vals[i]) < 0
    THEN [q EXCEPT !.pc = "failed", !.rc = 2, !.kmer_vals = vals]
  ELSE [q EXCEPT !.pc = "pool",
                 !.kmer_vals = vals,
                 !.hits = [i \in 1..Len(vals) |-> "0"],
                 !.shard_to_indices = bucket_fill(q.shards, vals, 1, [s \in DOMAIN q.shards |-> <<>>]),
                 !.next_shard = 0,
                 !.w = [t \in 1..Min(q.threads, shards_size(q.shards)) |-> [pc |-> "fetch", sid |-> 0, pos |-> 0]],
                 !.loads = [s \in DOMAIN q.shards |-> 0],
                 !.writers = [i \in 1..Len(vals) |-> {}]]

MqStart ==
  /\ mq.on
  /\ mq.pc = "start"
  /\ mq' = mq_started(mq, read_kmers(mq.lines))
  /\ UNCHANGED <<engineVars, xs, cc, bp, kq, kf>>

\* size_t sid = next_shard.fetch_add(1); the bounds test and the empty-bucket test
MqFetch(t) ==
  /\ mq.on
  /\ mq.pc = "pool"
  /\ mq.w[t].pc = "fetch"
  /\ mq' = [mq EXCEPT
       !.next_shard = fetch_add(@),
       !.w[t] = IF mq.next_shard >= shards_size(mq.shards)
                  THEN [@ EXCEPT !.pc = "exit"]
                ELSE IF bucket_empty(mq.shard_to_indices[mq.next_shard])
                  THEN @
                ELSE [@ EXCEPT !.pc = "load", !.sid = mq.next_shard]]
  /\ UNCHANGED <<engineVars, xs, cc, bp, kq, kf>>

\* load_kbit_portable(shard_path, ...); if (!sbm) continue; the probe loop is entered
\* when the bucket has an entry
MqLoad(t) ==
  /\ mq.on
  /\ mq.pc = "pool"
  /\ mq.w[t].pc = "load"
  /\ mq' = [mq EXCEPT
       !.loads[mq.w[t].sid] = @ + 1,
       !.w[t] = IF load_kbit_portable(mq.w[t].sid) /\ Len(mq.shard_to_indices[mq.w[t].sid]) > 0
                  THEN [@ EXCEPT !.pc = "probe", !.pos = 1]
                ELSE [@ EXCEPT !.pc = "fetch"]]
  /\ UNCHANGED <<engineVars, xs, cc, bp, kq, kf>>

\* one iteration of the probe loop: hits[idx_pos] = contains(sbm, val) ? '1' : '0'
probe_written(q, t, idx_pos) ==
  [q EXCEPT
     !.hits[idx_pos] = IF roaring64_bitmap_contains(bitmap_of(q.w[t].sid), q.kmer_vals[idx_pos])
                         THEN "1" ELSE "0",
     !.writers[idx_pos] = @ \cup {t},
     !.w[t] = IF q.w[t].pos < Len(q.shard_to_indices[q.w[t].sid])
                THEN [@ EXCEPT !.pos = @ + 1]
              ELSE [@ EXCEPT !.pc = "fetch"]]

MqProbe(t) ==
  /\ mq.on
  /\ mq.pc = "pool"
  /\ mq.w[t].pc = "probe"
  /\ mq' = probe_written(mq, t, mq.shard_to_indices[mq.w[t].sid][mq.w[t].pos])
  /\ UNCHANGED <<engineVars, xs, cc, bp, kq, kf>>

\* th.join() for every worker, the emit loop, return 0
MqEmit ==
  /\ mq.on
  /\ mq.pc = "pool"
  /\ \A t \in DOMAIN mq.w : mq.w[t].pc = "exit"
  /\ mq' = [mq EXCEPT
       !.pc = "done",
       !.rc = 0,
       !.out = [i \in 1..Len(mq.kmer_vals) |-> out_line(mq.kmer_vals[i], mq.hits[i])]]
  /\ UNCHANGED <<engineVars, xs, cc, bp, kq, kf>>

MqThreads == 1..(NumShards + 1)

\* input lines: keys of the key space, one key past the last shard, empty lines
MqLines == SeqsUpTo((0..total_bits_of(TheIndex)) \cup {BlankLine}, MaxQueries)

MqDatabases == {d \in Databases(TheIndex) : Cardinality(d) \in {0, 1, total_bits_of(TheIndex)}}

MqFresh(lines, T, shards) ==
  [on |-> TRUE, pc |-> "start", lines |-> lines, threads |-> T, shards |-> shards,
   kmer_vals |-> <<>>, hits |-> <<>>, shard_to_indices |-> <<>>, next_shard |-> 0,
   w |-> <<>>, loads |-> <<>>, writers |-> <<>>, rc |-> -1, out |-> <<>>]

InitMem ==
  /\ index = TheIndex
  /\ present \in MqDatabases
  /\ loadable \in SUBSET (0..(TheIndex.num_shards - 1))
  /\ args = Request(NoFilter, 1, 1, -1, FALSE, 1, 1, 1)
  /\ pc = "idle"
  /\ seed = 0
  /\ perm = <<>>
  /\ lanes = <<>>
  /\ next_perm_pos = 0
  /\ out_vals = <<>>
  /\ meta = NoMeta
  /\ stdout = <<>>
  /\ chain = <<>>
  /\ pages = 0
  /\ idx = 0
  /\ wk = WkIdle
  /\ xs = XsIdle
  /\ cc = CcIdle
  /\ \E lines \in MqLines, T \in MqThreads,
        shards \in {shard_infos(TheIndex), shard_infos_missing(TheIndex)} :
       mq = MqFresh(lines, T, shards)
  /\ bp = BpIdle
  /\ kq = KqIdle
  /\ kf = KfIdle

NextMem ==
  \/ MqStart
  \/ \E t \in DOMAIN mq.w : MqFetch(t)
  \/ \E t \in DOMAIN mq.w : MqLoad(t)
  \/ \E t \in DOMAIN mq.w : MqProbe(t)
  \/ MqEmit

SpecMem == InitMem /\ [][NextMem]_vars

-----------------------------------------------------------------------------
\* The membership query from its input text on: the lines are read, trimmed and
\* encoded before the keys are routed (specification SpecMemIn).  A line is the
\* sequence of its characters without the "\n".

\* most lines in an input text
MaxTextLines == 3

\* base_lut: 0xFF means invalid
base_lut(c) ==
  CASE c \in {"A", "a"} -> 0
    [] c \in {"C", "c"} -> 1
    [] c \in {"G", "g"} -> 2
    [] c \in {"T", "t"} -> 3
    [] OTHER -> 255

\* the loop of encode_kmer_sv from character i on, v being the bits so far
RECURSIVE encode_from(_, _, _)
encode_from(sv, i, v) ==
  IF i > Len(sv) THEN [ok |-> TRUE, out |-> v]
  ELSE IF base_lut(sv[i]) = 255 THEN [ok |-> FALSE, out |-> 0]
  ELSE encode_from(sv, i + 1, BitOr(Shl(v, 2), base_lut(sv[i])))

\* fault injection: an encoder that takes a line of any length
encode_kmer_sv_any_length(sv, k) == encode_from(sv, 1, 0)

\* encode_kmer_sv: [ok, out]
encode_kmer_sv(sv, k) ==
  IF Len(sv) # k THEN [ok |-> FALSE, out |-> 0] ELSE encode_from(sv, 1, 0)

\* FastLineReader::next: the line without its trailing "\r"
next_line(raw) ==
  IF raw # <<>> /\ raw[Len(raw)] = "\r" THEN SubSeq(raw, 1, Len(raw) - 1) ELSE raw

\* the read loop of main(): [ok, vals]; ok is FALSE when the loop returned 3
RECURSIVE read_input(_, _, _, _)

\* the rest of the loop once line i was encoded as e
line_encoded(text, i, k, vals, e) ==
  IF ~e.ok THEN [ok |-> FALSE, vals |-> vals]
  ELSE read_input(text, i + 1, k, Append(vals, e.out))

read_input(text, i, k, vals) ==
  IF i > Len(text) THEN [ok |-> TRUE, vals |-> vals]
  ELSE IF next_line(text[i]) = <<>> THEN read_input(text, i + 1, k, vals)
  ELSE line_encoded(text, i, k, vals, encode_kmer_sv(next_line(text[i]), k))

\* main() from the first line read to the end of the read loop
mq_read(q, r) ==
  IF r.ok THEN [q EXCEPT !.pc = "start", !.lines = r.vals]
  ELSE [q EXCEPT !.pc = "failed", !.rc = 3]

MqRead ==
  /\ mq.on
  /\ mq.pc = "read"
  /\ mq' = mq_read(mq, read_input(mq.text, 1, index.k, <<>>))
  /\ UNCHANGED <<engineVars, xs, cc, bp, kq, kf>>

\* input lines: three keys of the universe (one in lower case, one before "\r"), the
\* key past the last shard, empty lines, a short line, a long line, a letter that is
\* no base
TextLines ==
  { decode_kmer(1, K0), <<"c", "a">>, Append(decode_kmer(3, K0), "\r"),
    decode_kmer(total_bits_of(TheIndex), K0),
    <<>>, <<"\r">>,
    SubSeq(decode_kmer(1, K0), 1, K0 - 1), Append(decode_kmer(1, K0), "G"), <<"A", "N">> }

InitMemIn ==
  /\ index = TheIndex
  /\ present \in {{}, {1}}
  /\ loadable = 0..(TheIndex.num_shards - 1)
  /\ args = Request(NoFilter, 1, 1, -1, FALSE, 1, 1, 1)
  /\ pc = "idle"
  /\ seed = 0
  /\ perm = <<>>
  /\ lanes = <<>>
  /\ next_perm_pos = 0
  /\ out_vals = <<>>
  /\ meta = NoMeta
  /\ stdout = <<>>
  /\ chain = <<>>
  /\ pages = 0
  /\ idx = 0
  /\ wk = WkIdle
  /\ xs = XsIdle
  /\ cc = CcIdle
  /\ \E text \in SeqsUpTo(TextLines, MaxTextLines), T \in 1..2 :
       mq = [MqFresh(<<>>, T, shard_infos(TheIndex)) EXCEPT !.pc = "read"] @@ [text |-> text]
  /\ bp = BpIdle
  /\ kq = KqIdle
  /\ kf = KfIdle

NextMemIn ==
  \/ MqRead
  \/ MqStart
  \/ \E t \in DOMAIN mq.w : MqFetch(t)
  \/ \E t \in DOMAIN mq.w : MqLoad(t)
  \/ \E t \in DOMAIN mq.w : MqProbe(t)
  \/ MqEmit

SpecMemIn == InitMemIn /\ [][NextMemIn]_vars

-----------------------------------------------------------------------------
\* build_perm driven alone: two calls with the same (n, seed), one loop iteration
\* per step; and one call in which the generator may return any value.

MaxPermN == 5

PermSeeds == {0, 1, 2, RaSeed, UINT64_MAX}

\* values a generator may return: all eight bytes equal
AnyStates == {[i \in 1..8 |-> b] : b \in {0, 1, 2, 3, 7, 255}}

\* fault injection: an assignment in place of the swap
swap_overwrite(p, a, b) == [p EXCEPT ![a] = p[b]]

\* swap(p[a], p[b])
swap(p, a, b) == [p EXCEPT ![a] = p[b], ![b] = p[a]]

\* vector<uint32_t> p(n); p[i] = i; st = seed ? seed : 1
BpCall ==
  /\ bp.on
  /\ bp.pc = "call"
  /\ bp' = [bp EXCEPT !.pc = "loop",
                      !.p = [i \in 0..(bp.n - 1) |-> i],
                      !.st = u64_bytes(IF bp.seed # 0 THEN bp.seed ELSE 1),
                      !.i = bp.n]
  /\ UNCHANGED <<engineVars, xs, cc, mq, kq, kf>>

\* the loop body once the generator has returned st
bp_iterated(b, st) ==
  [b EXCEPT !.st = st, !.p = swap(b.p, b.i - 1, u64_mod(st, b.i)), !.i = b.i - 1]

\* st = splitmix64(st); j = st % i; swap(p[i-1], p[j]); --i
BpStep ==
  /\ bp.on
  /\ bp.pc = "loop"
  /\ ~bp.any
  /\ bp.i > 1
  /\ bp' = bp_iterated(bp, splitmix64(bp.st))
  /\ UNCHANGED <<engineVars, xs, cc, mq, kq, kf>>

\* the same iteration with a generator that returns any value
BpStepAny ==
  /\ bp.on
  /\ bp.pc = "loop"
  /\ bp.any
  /\ bp.i > 1
  /\ \E st \in AnyStates : bp' = bp_iterated(bp, st)
  /\ UNCHANGED <<engineVars, xs, cc, mq, kq, kf>>

\* return p; the caller calls again with the same arguments
BpReturn ==
  /\ bp.on
  /\ bp.pc = "loop"
  /\ ~(bp.i > 1)
  /\ bp' = IF bp.call = 1 /\ ~bp.any
             THEN [bp EXCEPT !.pc = "call", !.call = 2, !.first = bp.p]
           ELSE [bp EXCEPT !.pc = "done"]
  /\ UNCHANGED <<engineVars, xs, cc, mq, kq, kf>>

InitPerm ==
  /\ EngineIdle
  /\ xs = XsIdle
  /\ cc = CcIdle
  /\ mq = MqIdle
  /\ kq = KqIdle
  /\ kf = KfIdle
  /\ \E n \in 0..MaxPermN, sd \in PermSeeds, any \in BOOLEAN :
       bp = [on |-> TRUE, pc |-> "call", n |-> n, seed |-> sd, any |-> any, call |-> 1,
             st |-> u64_bytes(0), i |-> 0, p |-> <<>>, first |-> <<>>]

NextPerm == BpCall \/ BpStep \/ BpStepAny \/ BpReturn

SpecPerm == InitPerm /\ [][NextPerm]_vars

-----------------------------------------------------------------------------
\* The k0 / kout checks of main() driven alone, on the k values of the source
\* (base k 18, at most 32 bases in a uint64_t).

\* the test of k_index and the three tests of kout; TRUE when main() goes on
k_tests(k0, kout) ==
  /\ ~(k0 <= 0 \/ k0 > 32)
  /\ ~(kout > 32)
  /\ ~(kout > 18 /\ k0 # 18)
  /\ ~(k0 < 18 /\ kout # k0)

\* requested_kout = construct_k > 0 ? construct_k : -1; kout = requested_kout > 0 ? requested_kout : k0
main_k_checks(k_index, construct_k) ==
  k_tests(k_index, IF construct_k > 0 THEN construct_k ELSE k_index)

\* main() from the index to the end of the k checks: return 1, or go on to the scan
KqMain ==
  /\ kq.on
  /\ kq.pc = "start"
  /\ kq' = [kq EXCEPT !.pc = IF main_k_checks(kq.k_index, kq.construct_k) THEN "scan" ELSE "failed"]
  /\ UNCHANGED <<engineVars, xs, cc, mq, bp, kf>>

\* k of a readable index.json that passes the first test, and --construct_k
IndexKs == 1..32
ConstructKArgs == (-1)..33

InitK ==
  /\ EngineIdle
  /\ xs = XsIdle
  /\ cc = CcIdle
  /\ mq = MqIdle
  /\ bp = BpIdle
  /\ kf = KfIdle
  /\ \E k \in IndexKs, ck \in ConstructKArgs :
       kq = [on |-> TRUE, pc |-> "start", k_index |-> k, construct_k |-> ck]

NextK == KqMain

SpecK == InitK /\ [][NextK]_vars

-----------------------------------------------------------------------------
\* KBITv1 files: gen_kmer_bitmap writes the dense form, load_kbit_portable of the
\* search reads a shard file.  A file is its sequence of bytes.

\* largest number of one bits written
MaxOnes == 2

\* k of the files written (total_bits = 4^k)
KbitKs == {2, 3}

\* "KBITv1\0" and the terminating NUL of the literal
KbitMagic == <<75, 66, 73, 84, 118, 49, 0, 0>>

\* the 64-byte header: magic, six little-endian words, 8 reserved bytes
kbit_header(total_bits, ones, k, sd, flags, payload_len) ==
  push_u64_le(push_u64_le(push_u64_le(push_u64_le(push_u64_le(push_u64_le(push_u64_le(
    KbitMagic, total_bits), ones), k), sd), flags), payload_len), 0)

\* byte j of the payload: if (one) w |= (1ULL << b), b = 0..7 of that byte, LSB first
RECURSIVE dense_byte_from(_, _, _)
dense_byte_from(keys, j, b) ==
  IF b > 7 THEN 0
  ELSE (IF (8 * j + b) \in keys THEN 2 ^ b ELSE 0) + dense_byte_from(keys, j, b + 1)

\* the words put_bytes(&w, 8) writes: one 64-bit word per 64 bits begun
dense_payload(keys, total_bits) ==
  [j \in 1..(8 * ((total_bits + 63) \div 64)) |-> dense_byte_from(keys, j - 1, 0)]

\* the file gen_kmer_bitmap leaves: final header (flags = 1) and payload
gen_dense_file(k, keys, sd) ==
  kbit_header(Shl(1, 2 * k), Cardinality(keys), k, sd, 1, (Shl(1, 2 * k) + 7) \div 8)
    \o dense_payload(keys, Shl(1, 2 * k))

\* load_kbit_portable up to the call of the deserializer: "open" for a file that is
\* handed to roaring64_bitmap_portable_deserialize_safe, else the reason of the nullptr
kbit_checked(file) ==
  IF Len(file) < 64 \/ SubSeq(file, 1, 8) # KbitMagic THEN "header"
  ELSE IF read_u64_le(file, 40).x # 2 THEN "flags"
  ELSE IF Len(file) - 64 < read_u64_le(file, 48).x THEN "payload"
  ELSE "open"

\* the sets of n keys below total_bits
RECURSIVE KeySets(_, _)
KeySets(total_bits, n) ==
  IF n = 0 THEN {{}}
  ELSE {ks \in {s1 \cup {a} : s1 \in KeySets(total_bits, n - 1), a \in 0..(total_bits - 1)} :
          Cardinality(ks) = n}

\* gen_kmer_bitmap: selection sampling sets ones of the 4^k bits
KfWrite ==
  /\ kf.on
  /\ kf.pc = "write"
  /\ \E keys \in KeySets(Shl(1, 2 * kf.k), kf.ones) :
        kf' = [kf EXCEPT !.pc = "written", !.keys = keys,
                         !.file = gen_dense_file(kf.k, keys, kf.seed)]
  /\ UNCHANGED <<engineVars, xs, cc, mq, bp, kq>>

\* the file is cut short, or its flags word is rewritten to 2 with the payload kept
KfDamage ==
  /\ kf.on
  /\ kf.pc = "written"
  /\ kf.kind = "dense"
  /\ \/ \E n \in {0, 8, 63, 64} :
          kf' = [kf EXCEPT !.kind = "cut", !.file = SubSeq(kf.file, 1, n)]
     \/ kf' = [kf EXCEPT !.kind = "flags2",
                         !.file = [j \in 1..Len(kf.file) |-> IF j = 41 THEN 2 ELSE kf.file[j]]]
  /\ UNCHANGED <<engineVars, xs, cc, mq, bp, kq>>

\* load_kbit_portable; what the deserializer makes of a payload is the library's
KfLoad ==
  /\ kf.on
  /\ kf.pc = "written"
  /\ IF kbit_checked(kf.file) # "open"
       THEN kf' = [kf EXCEPT !.pc = "loaded", !.res = [ok |-> FALSE, bm |-> {}]]
     ELSE \E r \in {[ok |-> FALSE, bm |-> {}], [ok |-> TRUE, bm |-> {}], [ok |-> TRUE, bm |-> kf.keys]} :
            kf' = [kf EXCEPT !.pc = "loaded", !.res = r]
  /\ UNCHANGED <<engineVars, xs, cc, mq, bp, kq>>

InitKbit ==
  /\ EngineIdle
  /\ xs = XsIdle
  /\ cc = CcIdle
  /\ mq = MqIdle
  /\ bp = BpIdle
  /\ kq = KqIdle
  /\ \E k \in KbitKs, n \in 0..MaxOnes, sd \in {0, RaSeed} :
       kf = [on |-> TRUE, pc |-> "write", kind |-> "dense", k |-> k, ones |-> n, seed |-> sd,
             keys |-> {}, file |-> <<>>, res |-> [ok |-> FALSE, bm |-> {}]]

NextKbit == KfWrite \/ KfDamage \/ KfLoad

SpecKbit == InitKbit /\ [][NextKbit]_vars

-----------------------------------------------------------------------------
\* gen_kmer_bitmap: the ring of NBUF buffers between the producer (main) and the
\* writer thread (specification SpecRing).  --buf is rounded to a multiple of 8 and
\* every put_bytes call passes one 64-bit word, so a buffer holds whole words: the
\* model counts in words and numbers the words 1..total in the order of the calls.

NBUF == 3
MaxBufWords == 2
MaxWords == 5

\* kf = [on, kind |-> "ring", cap, total, next, data, used, eof, ready, fill_idx,
\*       flush_idx, stop_writer, pc, wpc, to_write, file] and, for the sampling loop,
\*      [sampling, ones_target, remaining, needed, b, w, ones_of]

\* put_bytes, "size_t space = B.data.size() - B.used" with space > 0:
\* memcpy of the word, B.used += chunk; then the loop "while (remaining)"
GenCopy ==
  /\ kf.on /\ kf.kind = "ring"
  /\ kf.pc = "put"
  /\ kf.used[kf.fill_idx] < kf.cap
  /\ kf' = [kf EXCEPT !.data[kf.fill_idx][kf.used[kf.fill_idx] + 1] = kf.next,
                      !.used[kf.fill_idx] = @ + 1,
                      !.next = @ + 1,
                      !.pc = IF kf.next = kf.total THEN "finalize"
                             ELSE IF kf.sampling THEN "gen" ELSE "put"]
  /\ UNCHANGED <<engineVars, xs, cc, mq, bp, kq>>

\* put_bytes, the test "if (space == 0)" taken
GenFull ==
  /\ kf.on /\ kf.kind = "ring"
  /\ kf.pc = "put"
  /\ kf.used[kf.fill_idx] = kf.cap
  /\ kf' = [kf EXCEPT !.pc = "hand"]
  /\ UNCHANGED <<engineVars, xs, cc, mq, bp, kq>>

\* put_bytes, the hand-off: cv_prod.wait(!ready[fill_idx]); ready[fill_idx] = true;
\* fill_idx = (fill_idx + 1) % NBUF; continue
GenHand ==
  /\ kf.on /\ kf.kind = "ring"
  /\ kf.pc = "hand"
  /\ ~kf.ready[kf.fill_idx]
  /\ kf' = [kf EXCEPT !.ready[kf.fill_idx] = TRUE,
                      !.fill_idx = (@ + 1) % NBUF,
                      !.pc = "put"]
  /\ UNCHANGED <<engineVars, xs, cc, mq, bp, kq>>

\* "Finalize buffers": hand the current buffer off if it holds data, flag it eof
GenFinalize ==
  /\ kf.on /\ kf.kind = "ring"
  /\ kf.pc = "finalize"
  /\ kf' = [kf EXCEPT !.ready[kf.fill_idx] =
                         IF ~kf.ready[kf.fill_idx] /\ kf.used[kf.fill_idx] > 0 THEN TRUE ELSE @,
                      !.eof[kf.fill_idx] = TRUE,
                      !.pc = "stop"]
  /\ UNCHANGED <<engineVars, xs, cc, mq, bp, kq>>

\* "Stop writer when all handed": stop_writer = true
GenStop ==
  /\ kf.on /\ kf.kind = "ring"
  /\ kf.pc = "stop"
  /\ kf' = [kf EXCEPT !.stop_writer = TRUE, !.pc = "join"]
  /\ UNCHANGED <<engineVars, xs, cc, mq, bp, kq>>

\* writer_thread.join()
GenJoin ==
  /\ kf.on /\ kf.kind = "ring"
  /\ kf.pc = "join"
  /\ kf.wpc = "exit"
  /\ kf' = [kf EXCEPT !.pc = "done"]
  /\ UNCHANGED <<engineVars, xs, cc, mq, bp, kq>>

\* writer: cv_cons.wait(ready[flush_idx] || stop_writer); break when stopped with
\* nothing ready; to_write = B.used; lk.unlock()
WriterWait ==
  /\ kf.on /\ kf.kind = "ring"
  /\ kf.wpc = "wait"
  /\ kf.ready[kf.flush_idx] \/ kf.stop_writer
  /\ kf' = IF kf.stop_writer /\ ~kf.ready[kf.flush_idx]
             THEN [kf EXCEPT !.wpc = "exit"]
           ELSE [kf EXCEPT !.wpc = "write", !.to_write = kf.used[kf.flush_idx]]
  /\ UNCHANGED <<engineVars, xs, cc, mq, bp, kq>>

\* writer: the fwrite loop over B.data[0, to_write), outside the lock
WriterWrite ==
  /\ kf.on /\ kf.kind = "ring"
  /\ kf.wpc = "write"
  /\ kf' = [kf EXCEPT !.file = @ \o [j \in 1..kf.to_write |-> kf.data[kf.flush_idx][j]],
                      !.wpc = "reset"]
  /\ UNCHANGED <<engineVars, xs, cc, mq, bp, kq>>

\* writer: lk.lock(); B.used = 0; ready[flush_idx] = false;
\* flush_idx = (flush_idx + 1) % NBUF
WriterReset ==
  /\ kf.on /\ kf.kind = "ring"
  /\ kf.wpc = "reset"
  /\ kf' = [kf EXCEPT !.used[kf.flush_idx] = 0,
                      !.ready[kf.flush_idx] = FALSE,
                      !.flush_idx = (@ + 1) % NBUF,
                      !.wpc = "wait"]
  /\ UNCHANGED <<engineVars, xs, cc, mq, bp, kq>>

\* the state at "std::thread writer_thread(writer)" for buffers of cap words and a
\* payload of total words
RingFresh(cap, total) ==
  [on |-> TRUE, kind |-> "ring", cap |-> cap, total |-> total, next |-> 1,
   data |-> [b \in 0..(NBUF - 1) |-> [j \in 1..cap |-> 0]],
   used |-> [b \in 0..(NBUF - 1) |-> 0],
   eof |-> [b \in 0..(NBUF - 1) |-> FALSE],
   ready |-> [b \in 0..(NBUF - 1) |-> FALSE],
   fill_idx |-> 0, flush_idx |-> 0, stop_writer |-> FALSE,
   pc |-> IF total = 0 THEN "finalize" ELSE "put", wpc |-> "wait", to_write |-> 0,
   file |-> <<>>,
   sampling |-> FALSE, ones_target |-> 0, remaining |-> 0, needed |-> 0, b |-> 0, w |-> 0,
   ones_of |-> <<>>]

InitRing ==
  /\ EngineIdle
  /\ xs = XsIdle
  /\ cc = CcIdle
  /\ mq = MqIdle
  /\ bp = BpIdle
  /\ kq = KqIdle
  /\ \E cap \in 1..MaxBufWords, total \in 0..MaxWords : kf = RingFresh(cap, total)

NextRing ==
  \/ GenCopy
  \/ GenFull
  \/ GenHand
  \/ GenFinalize
  \/ GenStop
  \/ GenJoin
  \/ WriterWait
  \/ WriterWrite
  \/ WriterReset

SpecRing == InitRing /\ [][NextRing]_vars

-----------------------------------------------------------------------------
\* gen_kmer_bitmap: the selection-sampling loop in front of the buffer ring
\* (specification SpecGen).  kf.w is the number of bits set in the word under
\* construction and kf.ones_of[n] the number of bits set in the n-th word passed to
\* put_bytes.

WordBits == 64

\* the values of rng.next() of the model are the multiples of 2^64 / RngRange
RngRange == 8

\* fast_bounded: (rnd * bound) >> 64, for rnd = r * 2^64 / RngRange
fast_bounded(r, bound) == (r * bound) \div RngRange

\* "if (needed) { ... if (pick < needed) one = true; }"
take_bit(nd, rem, r) == nd # 0 /\ fast_bounded(r, rem) < nd

\* the body of "for (int b=0; b<bits_here; ++b)", and the call of put_bytes(&w, 8)
\* when the word is complete; bits_here is min(64, remaining at the word's start)
GenBit ==
  /\ kf.on /\ kf.kind = "ring"
  /\ kf.pc = "gen"
  /\ IF kf.b < Min(WordBits, kf.remaining + kf.b)
       THEN \E r \in 0..(RngRange - 1) :
              kf' = [kf EXCEPT !.needed = IF take_bit(kf.needed, kf.remaining, r) THEN @ - 1 ELSE @,
                               !.w = IF take_bit(kf.needed, kf.remaining, r) THEN @ + 1 ELSE @,
                               !.remaining = @ - 1,
                               !.b = @ + 1]
     ELSE kf' = [kf EXCEPT !.ones_of = Append(@, kf.w), !.w = 0, !.b = 0, !.pc = "put"]
  /\ UNCHANGED <<engineVars, xs, cc, mq, bp, kq>>

\* the exit code of main() after the writer is joined
gen_exit_code(g) == IF g.needed # 0 THEN 2 ELSE 0

\* the state at the sampling loop for --k k, buffers of cap words, ones_target ones
GenFresh(k, cap, ones) ==
  [RingFresh(cap, (Shl(1, 2 * k) + WordBits - 1) \div WordBits) EXCEPT
     !.sampling = TRUE, !.ones_target = ones, !.remaining = Shl(1, 2 * k), !.needed = ones,
     !.pc = "gen"]

SampleKs == {1, 4}

\* ones_target for --percent 0, the least and the greatest percentages that round
\* to one bit less than the ends, and --percent 100
OnesTargets(total_bits) == {0, 1, total_bits - 1, total_bits}

InitGen ==
  /\ EngineIdle
  /\ xs = XsIdle
  /\ cc = CcIdle
  /\ mq = MqIdle
  /\ bp = BpIdle
  /\ kq = KqIdle
  /\ \E k \in SampleKs : \E ones \in OnesTargets(Shl(1, 2 * k)) : kf = GenFresh(k, 1, ones)

NextGen ==
  \/ GenBit
  \/ GenCopy
  \/ GenFull
  \/ GenHand
  \/ GenFinalize
  \/ GenStop
  \/ GenJoin
  \/ WriterWait
  \/ WriterWrite
  \/ WriterReset

SpecGen == InitGen /\ [][NextGen]_vars

-----------------------------------------------------------------------------
\* Properties of the streaming search (specification Spec)

IsDupFree(s) == \A i, j \in 1..Len(s) : i # j => s[i] # s[j]

Range(s) == {s[i] : i \in 1..Len(s)}

\* the multiset of the elements of a sequence
BagOf(s) == [v \in Range(s) |-> Cardinality({i \in 1..Len(s) : s[i] = v})]

\* the request that started the chain the current page belongs to
first_request == [args EXCEPT !.cursor_set = FALSE, !.cursor_token = <<>>]

\* a limit above the number of values any query can produce here
BigLimit == total_bits_of(TheIndex) * (MaxD + 1) * pow4(MaxD) + 1

kout_now == kout_of(args, index)

\* the leaf test read off the printed k-mer, character by character
kmer_passes(s, a) ==
  LET gc == Cardinality({i \in 1..Len(s) : s[i] \in {"C", "G"}})
      occurs(sub) == \E p \in 1..(Len(s) - Len(sub) + 1) : SubSeq(s, p, p + Len(sub) - 1) = sub
  IN  /\ a.gcMinPct * Len(s) <= 100 * gc
      /\ 100 * gc <= a.gcMaxPct * Len(s)
      /\ a.substring_set =>
            \/ occurs(a.substring)
            \/ a.reverse_complement /\ occurs(revcomp_string(a.substring))

\* the key spelled by a string of bases
RECURSIVE key_of(_)
key_of(s) == IF Len(s) = 0 THEN 0 ELSE 4 * key_of(SubSeq(s, 1, Len(s) - 1)) + base4_digit(s[Len(s)])

\* a key of the base key space that lies in some shard range and in no bitmap
absent_key(v) == v >= 0 /\ v < total_bits_of(index) /\ v \notin present

\* the keys a complete mode 0 scan has to return
qualifying == {v \in 0..(total_bits_of(index) - 1) :
                 absent_key(v) /\ kmer_passes(decode_kmer(v, index.k), args)}

\* C1: when a chain of pages ends with hasMore = '0', the multiset of its k-mers is
\* the multiset a single run of the same query with a limit above the number of
\* results returns.
C1_PaginationComplete ==
  (pc = "done" /\ meta.hasMore = "0") =>
     BagOf(chain) = BagOf(run_query([first_request EXCEPT !.limit = BigLimit], index).keys)

\* C2: m full pages of limit n chained through the cursor are, position by position,
\* the output of a single fresh run with limit n*m.
C2_PageSplitSequence ==
  (pc = "done" /\ Len(chain) = args.limit * pages) =>
     chain = run_query([first_request EXCEPT !.limit = args.limit * pages], index).keys

\* C3: one run of a mode 0 query (kout = k0) whose limit is above the number of
\* qualifying keys returns every absent key that passes the leaf test.
C3_ScanComplete ==
  (pc = "done" /\ pages = 1 /\ kout_now = index.k /\ args.limit > Cardinality(qualifying)) =>
     qualifying \subseteq Range(out_vals)

\* C4: in mode 0 (kout = k0) with a single refill thread, the k-mers returned over a
\* chain of pages are pairwise distinct.
C4_NoDuplicateKonly ==
  kout_now = index.k => IsDupFree(chain)

C4_Witness ==
  /\ pc = "done" /\ meta.hasMore = "0" /\ kout_now = index.k
  /\ pages >= 2 /\ Len(chain) >= 2 /\ args.window = 2

\* C5: in mode 1 (kout > k0) the values returned by a run and by a chain of pages are
\* pairwise distinct.
C5_NoDuplicateExpand ==
  kout_now > index.k => IsDupFree(chain)

\* C7: every printed k-mer has length kout and passes the GC and substring tests; in
\* mode 0 its key is absent from the database, in mode 1 it holds, at one of the
\* d+1 offsets, a base-k anchor that is absent from the database.
C7_FilterSound ==
  pc = "done" =>
    \A j \in 1..Len(stdout) :
       LET s == stdout[j]
           d == kout_now - index.k
       IN  /\ Len(s) = kout_now
           /\ key_of(s) = out_vals[j]
           /\ kmer_passes(s, args)
           /\ IF d = 0 THEN absent_key(out_vals[j])
              ELSE \E L \in 0..d : absent_key(key_of(SubSeq(s, L + 1, L + index.k)))

C7_Witness ==
  /\ pc = "done" /\ Len(stdout) >= 2 /\ args.substring_set /\ kout_now > index.k
  /\ \E v \in 0..(total_bits_of(index) - 1) :
        absent_key(v) /\ ~kmer_passes(decode_kmer(v, index.k), args)

-----------------------------------------------------------------------------
\* Properties of the expansion state machine (specification SpecExp)

\* the n-th child (n from 0) of anchor B in the documented order: L from d down to 0,
\* left_idx outermost, right_idx innermost
child_L(d, n) == d - (n \div pow4(d))

child_at(B, d, n) ==
  LET L == child_L(d, n)
      R == d - L
      rem == n % pow4(d)
  IN  (rem \div pow4(R)) * pow4(K0 + R) + B * pow4(R) + (rem % pow4(R))

-----------------------------------------------------------------------------
\* Properties of the refill pool (specification SpecPar)

\* C8: the lines a page prints with T worker threads are the lines the same request
\* prints when one thread runs the refill phases, whatever the schedule.
C8_ThreadsDeterministic ==
  pc = "done" =>
     LET r == run_query(args, index)
     IN  /\ meta = r.meta
         /\ stdout = [j \in 1..Len(r.keys) |-> decode_kmer(r.keys[j], kout_now)]

\* C9: in a fresh query no two active lanes hold the same permutation position.
C9_LanesDisjoint ==
  ~args.cursor_set =>
     \A i, j \in DOMAIN lanes :
        (i # j /\ lanes[i].active /\ lanes[j].active) => lanes[i].perm_pos # lanes[j].perm_pos

-----------------------------------------------------------------------------
\* Properties of the cursor codec (specification SpecCur)

\* equality of two lane states in the fields make_cursor_bcw2 writes
same_lane(x, y) ==
  /\ x.active = y.active
  /\ x.active =>
        /\ x.perm_pos = y.perm_pos
        /\ x.mode = y.mode
        /\ IF x.mode = 0 THEN x.after = y.after
           ELSE /\ x.parent_anchor = y.parent_anchor
                /\ x.child_present = y.child_present
                /\ x.child_present =>
                      (x.L = y.L /\ x.left_idx = y.left_idx /\ x.right_idx = y.right_idx)

same_serialized(x, y) ==
  /\ x.flags = y.flags /\ x.k0 = y.k0 /\ x.kout = y.kout /\ x.d = y.d
  /\ x.numShards = y.numShards /\ x.seed = y.seed /\ x.next_perm_pos = y.next_perm_pos
  /\ x.window = y.window /\ x.burst = y.burst
  /\ Len(x.lanes) = Len(y.lanes)
  /\ \A i \in 1..Len(x.lanes) : same_lane(x.lanes[i], y.lanes[i])

\* C10: parsing the token made from a cursor succeeds and gives back every serialized
\* field; decoding the base64url encoding of a byte string gives back the byte string.
C10_CursorRoundTrip ==
  /\ (cc.on /\ cc.kind = "cursor" /\ cc.step = 2) =>
        (cc.parsed.ok /\ cc.parsed.c.present /\ same_serialized(cc.parsed.c, cc.c))
  /\ (cc.on /\ cc.kind = "bytes" /\ cc.step = 2) =>
        (cc.dec.ok /\ cc.dec.out = cc.bytes)

C10_Witness ==
  /\ cc.on /\ cc.kind = "cursor" /\ cc.step = 2
  /\ Len(cc.c.lanes) = MaxLanes
  /\ cc.c.window > 255
  /\ \E i \in 1..Len(cc.c.lanes) : cc.c.lanes[i].active /\ cc.c.lanes[i].child_present
  /\ \E i \in 1..Len(cc.c.lanes) : cc.c.lanes[i].active /\ cc.c.lanes[i].after = UINT64_MAX

-----------------------------------------------------------------------------
\* Properties of a replayed cursor (specification SpecReplay)

\* the six values the cursor records agree between the request (a1, ix1) that made it
\* and the request (a2, ix2) that presents it
same_six(a1, ix1, a2, ix2) ==
  /\ ix1.num_shards = ix2.num_shards
  /\ ix1.k = ix2.k
  /\ kout_of(a1, ix1) = kout_of(a2, ix2)
  /\ a1.window = a2.window
  /\ a1.burst = a2.burst
  /\ a1.random_access = a2.random_access

\* C11: a request that presents a cursor is rejected before the scan, with a non-zero
\* exit and no __META__ line, when its num_shards, k0, kout, window, burst or
\* random_access flag differs from those of the request that made the cursor, and it is
\* accepted when all six agree; a rejected process takes no further step.
C11_ResumeValidation ==
  [][ /\ (pc = "done" /\ pc' = "start") =>
           (startup(args', index').ok <=> same_six(args, index, args', index'))
      /\ pc # "failed" ]_vars

C11_Witness ==
  /\ pc = "failed" /\ args.cursor_set /\ index = TheIndex
  /\ args.window = 1 /\ parse_cursor_bcw2(args.cursor_token).c.window = 2
  /\ pages = 1

-----------------------------------------------------------------------------
\* Properties of the cursor parser on damaged tokens (specification SpecTok)

\* the number of bytes one lane record of the parsed cursor occupies
lane_record_len(ln) ==
  IF ~ln.active THEN 1
  ELSE IF ln.mode = 0 THEN 1 + 4 + 1 + 8
  ELSE IF ~ln.child_present THEN 1 + 4 + 1 + 8 + 1
  ELSE 1 + 4 + 1 + 8 + 1 + 1 + 8 + 8

RECURSIVE records_len(_, _)
records_len(ls, i) == IF i > Len(ls) THEN 0 ELSE lane_record_len(ls[i]) + records_len(ls, i + 1)

\* the offset behind the last byte a cursor with these lanes was read from
fields_end(c) == (4 + 1 + 3 + 4 + 8 + 4 + 2 + 2 + 2) + records_len(c.lanes, 1)

\* C12: parse_cursor_bcw2 returns false for a token with a character outside base64url,
\* a body shorter than the fixed header, a magic other than 'BCW2' or a lane record cut
\* at any byte; and whenever it returns true, the token decoded and every field of the
\* cursor, the lane records included, lies within the decoded bytes.
C12_MalformedRejected ==
  (cc.on /\ cc.step = 2 /\ cc.kind \in {"badchar", "short", "magic", "cut", "tail"}) =>
     /\ cc.kind \in {"badchar", "short", "magic", "cut"} => ~cc.parsed.ok
     /\ cc.parsed.ok =>
          /\ cc.dec.ok
          /\ fields_end(cc.parsed.c) <= Len(cc.dec.out)
          /\ Len(cc.parsed.c.lanes) = read_u16_le(cc.dec.out, 28).x

C12_Witness ==
  /\ cc.on /\ cc.step = 2 /\ cc.kind = "cut" /\ ~cc.parsed.ok
  /\ Len(cc.c.lanes) = MaxLanes /\ cc.dec.ok /\ Len(cc.dec.out) = fields_end(cc.c) - 1

C12_WitnessAccepted ==
  /\ cc.on /\ cc.step = 2 /\ cc.kind = "tail" /\ cc.parsed.ok
  /\ Len(cc.parsed.c.lanes) = MaxTail

-----------------------------------------------------------------------------
\* Properties of the streaming search on shard files that do not load
\* (specification SpecIo)

\* the cursor the current process was started with
cursor_in == parse_cursor_bcw2(args.cursor_token).c

\* the permutation positions whose shard the current process tried to load: the
\* active lanes of its cursor, and the positions it took from the head
load_attempts ==
  (IF args.cursor_set
     THEN {cursor_in.lanes[i].perm_pos : i \in {j \in 1..Len(cursor_in.lanes) : cursor_in.lanes[j].active}}
   ELSE {})
  \cup ((IF args.cursor_set THEN cursor_in.next_perm_pos ELSE 0)..(next_perm_pos - 1))

\* C13: a process that printed its __META__ line loaded every shard it tried to load,
\* for the lanes restored from its cursor and for the lanes filled from the head of the
\* permutation (a failed load ends the process with a non-zero status instead).
C13_ShardErrorsFatal ==
  pc = "done" => \A p \in load_attempts : load_kbit_portable(perm[p])

-----------------------------------------------------------------------------
\* Properties of the membership query (specification SpecMem)

\* the shard whose range holds key v
shard_holding(v) ==
  CHOOSE s \in DOMAIN mq.shards : mq.shards[s].start <= v /\ v < mq.shards[s].end

\* the line the query owes for key v
truth_line(v) == out_line(v, IF v \in bitmap_of(shard_holding(v)) THEN "1" ELSE "0")

\* C14: a membership query that returns 0 has printed one line per non-empty input line,
\* in input order, and line i carries '1' iff key i is in the bitmap of the shard whose
\* range holds it.
C14_MembershipCorrect ==
  (mq.on /\ mq.pc = "done") =>
     /\ Len(mq.out) = Cardinality({i \in 1..Len(mq.lines) : mq.lines[i] # BlankLine})
     /\ mq.out = [i \in 1..Len(mq.kmer_vals) |-> truth_line(mq.kmer_vals[i])]
     /\ mq.kmer_vals = read_kmers(mq.lines)

\* C15: a membership query that returns 0 has loaded every shard that holds a query key
\* (a load failure of such a shard ends the query with a non-zero status).
C15_MembershipLoadFatal ==
  (mq.on /\ mq.pc = "done") =>
     \A s \in DOMAIN mq.shards :
        mq.shard_to_indices[s] # <<>> => load_kbit_portable(s)

\* the line the program prints for key v on the shard files at hand, whatever the
\* number of workers and their schedule
settled_line(v) ==
  out_line(v, IF load_kbit_portable(shard_holding(v)) /\ v \in bitmap_of(shard_holding(v))
                THEN "1" ELSE "0")

\* C16: the output of a finished membership query is a function of the input lines and
\* the shard files alone (so it is the same for every thread count and every
\* interleaving of the workers), and no hits entry is written by two workers.
C16_MembershipThreadsIndependent ==
  (mq.on /\ mq.pc \in {"pool", "done"}) =>
     /\ \A i \in DOMAIN mq.writers : Cardinality(mq.writers[i]) <= 1
     /\ mq.pc = "done" =>
          mq.out = [i \in 1..Len(read_kmers(mq.lines)) |-> settled_line(read_kmers(mq.lines)[i])]

\* two workers have probed different shards and one of them found its key
C16_Witness ==
  /\ mq.on /\ mq.pc = "done"
  /\ mq.threads >= 2
  /\ \E i, j \in DOMAIN mq.writers :
        /\ mq.writers[i] # {} /\ mq.writers[j] # {} /\ mq.writers[i] # mq.writers[j]
        /\ mq.hits[i] = "1"
        /\ i < j /\ mq.kmer_vals[i] > mq.kmer_vals[j]

\* C17: each shard is loaded at most once across all workers, and a shard whose bucket
\* of query indices is empty is never opened.
C17_MembershipLoadOnce ==
  (mq.on /\ mq.pc \in {"pool", "done"}) =>
     \A s \in DOMAIN mq.loads :
        /\ mq.loads[s] <= 1
        /\ mq.shard_to_indices[s] = <<>> => mq.loads[s] = 0

\* a finished query of several workers with a bucket of two keys, loaded once, and a
\* shard without query keys
C17_Witness ==
  /\ mq.on /\ mq.pc = "done"
  /\ Cardinality(DOMAIN mq.w) >= 2
  /\ \E s, e \in DOMAIN mq.loads :
        /\ Len(mq.shard_to_indices[s]) = 2 /\ mq.loads[s] = 1
        /\ mq.shard_to_indices[e] = <<>> /\ mq.loads[e] = 0

-----------------------------------------------------------------------------
\* Properties of build_perm (specification SpecPerm)

\* p holds each element of [0, n) exactly once
is_permutation(p, n) ==
  /\ DOMAIN p = 0..(n - 1)
  /\ \A v \in 0..(n - 1) : Cardinality({i \in DOMAIN p : p[i] = v}) = 1

\* C18: build_perm(n, seed) holds each element of [0, n) exactly once, whatever values
\* the generator returns (p is a permutation after every iteration), and a second call
\* with the same (n, seed) returns the sequence of the first, which is the sequence the
\* search uses.
C18_PermBijection ==
  (bp.on /\ bp.pc \in {"loop", "done"}) =>
     /\ is_permutation(bp.p, bp.n)
     /\ (bp.pc = "done" /\ ~bp.any) =>
          /\ bp.call = 2
          /\ bp.p = bp.first
          /\ bp.p = build_perm(bp.n, bp.seed)

\* two finished calls with seed 0 that moved an element
C18_Witness ==
  /\ bp.on /\ bp.pc = "done" /\ ~bp.any /\ bp.call = 2
  /\ bp.n = MaxPermN /\ bp.seed = 0
  /\ bp.p # [i \in 0..(bp.n - 1) |-> i]

\* a finished call on values that are not splitmix64's
C18_WitnessAny ==
  /\ bp.on /\ bp.pc = "done" /\ bp.any /\ bp.n = MaxPermN
  /\ bp.p[0] = bp.n - 1

-----------------------------------------------------------------------------
\* Properties of the k0 / kout checks (specification SpecK)

\* the K of the request: --construct_k when given, else base-k
requested_K == IF kq.construct_k > 0 THEN kq.construct_k ELSE kq.k_index

\* the requests the rules reject
k_rule_rejects(k0, K) ==
  \/ K < k0
  \/ k0 \in {16, 17} /\ K # k0
  \/ K > 18 /\ k0 # 18

\* C20: the search rejects before any scan every request with K below base-k, every
\* K # base-k on base-k 16 or 17, and every K > 18 on a base-k other than 18; it accepts
\* K = base-k and K in 19..32 on base-k 18 (where no rejecting rule applies).
C20_ConstructKRules ==
  (kq.on /\ kq.pc # "start") =>
     /\ k_rule_rejects(kq.k_index, requested_K) => kq.pc = "failed"
     /\ ( /\ ~k_rule_rejects(kq.k_index, requested_K)
          /\ requested_K = kq.k_index \/ (kq.k_index = 18 /\ requested_K \in 19..32) )
          => kq.pc = "scan"

-----------------------------------------------------------------------------
\* The __META__ line (specification Spec)

\* C19: in every __META__ line the cursor field is empty iff hasMore is '0'; and when
\* all lanes have retired before limit + 1 keys were collected and next_perm_pos equals
\* num_shards, hasMore is '0' and the cursor is empty.
C19_CursorAgreesHasMore ==
  [][ (pc = "finish" /\ pc' = "done") =>
        /\ (meta'.cursor = <<>>) <=> (meta'.hasMore = "0")
        /\ meta'.hasMore \in {"0", "1"}
        /\ (Len(out_vals) < need /\ ~any_active(lanes) /\ next_perm_pos = index.num_shards)
             => (meta'.hasMore = "0" /\ meta'.cursor = <<>>) ]_vars

\* the last page of a chain: every lane retired, every shard handed out, keys printed
C19_Witness ==
  /\ pc = "done"
  /\ pages >= 2
  /\ ~any_active(lanes) /\ next_perm_pos = index.num_shards
  /\ meta.hasMore = "0" /\ meta.cursor = <<>>
  /\ Len(out_vals) >= 1 /\ Len(out_vals) <= args.limit

-----------------------------------------------------------------------------
\* The seed of a resumed chain (specification SpecSeed)

\* the seed stored in the cursor of the current request, as main() takes it
cursor_seed == IF cursor_in.seed = 0 THEN 1 ELSE cursor_in.seed

\* the page a process prints for request a
page_of_run(r) == [keys |-> r.keys, meta |-> r.meta]

page_printed(a) == page_of_run(run_query(a, index))

\* C21: a process started with an accepted cursor in --random_access order resolves every
\* permutation position through build_perm(num_shards, seed of the cursor), whatever
\* --ra_seed the request passes, and the page it prints is the page of the same request
\* with any other --ra_seed.
C21_SeedFromCursor ==
  (pc \in {"loop", "drain", "finish", "done"} /\ args.cursor_set /\ args.random_access) =>
     /\ seed = cursor_seed
     /\ perm = build_perm(index.num_shards, cursor_seed)
     /\ \A i \in DOMAIN lanes : lanes[i].active => lanes[i].shardIdx = perm[lanes[i].perm_pos]
     /\ pc = "done" =>
          \A sd \in SeedArgs :
             page_printed([args EXCEPT !.ra_seed = sd]) = [keys |-> out_vals, meta |-> meta]

\* a later page of a chain whose request names a seed of another permutation
C21_Witness ==
  /\ pc = "done" /\ args.cursor_set /\ args.random_access
  /\ pages >= 2
  /\ Len(out_vals) >= 1
  /\ args.ra_seed # cursor_seed
  /\ build_perm(index.num_shards, seed_of_args(args)) # perm
  /\ \E i \in DOMAIN lanes : lanes[i].active

-----------------------------------------------------------------------------
\* KBITv1 files (specification SpecKbit)

\* bit i & 7 of payload byte i >> 3 of a file
dense_bit(file, i) == (file[64 + Shr(i, 3) + 1] \div (2 ^ (i % 8))) % 2 = 1

\* C22: a file written by the generator in the dense form stores key i as bit i & 7 of
\* payload byte i >> 3, the shard loader reads it back, and contains(i) is true exactly
\* for the keys whose bit was set.
C22_DenseRoundTrip ==
  (kf.on /\ kf.kind = "dense" /\ kf.pc \in {"written", "loaded"}) =>
     /\ \A i \in 0..(Shl(1, 2 * kf.k) - 1) : dense_bit(kf.file, i) <=> i \in kf.keys
     /\ kf.pc = "loaded" =>
          /\ kf.res.ok
          /\ \A i \in 0..(Shl(1, 2 * kf.k) - 1) :
                roaring64_bitmap_contains(kf.res.bm, i) <=> dense_bit(kf.file, i)

-----------------------------------------------------------------------------
\* Resume points (specification Spec)

\* the qualifying keys of lane i's shard up to the lane's resume point
keys_behind(i) ==
  {v \in qualifying : shard_starts(index)[lanes[i].shardIdx] <= v /\ v <= lanes[i].after}

\* C23: at the end of every page of a mode 0 query, for every active lane, every absent
\* key of the lane's shard that passes the leaf test and is <= the value `after` written
\* to the cursor has been returned to the caller in this or an earlier page (a lane
\* that has not scanned yet carries after = UINT64_MAX, which stands for no key).
C23_ResumePointKonly ==
  (pc = "done" /\ meta.hasMore = "1" /\ kout_now = index.k) =>
     \A i \in DOMAIN lanes :
        (lanes[i].active /\ lanes[i].after # UINT64_MAX) => keys_behind(i) \subseteq Range(chain)

\* the keys returned when the scan is resumed from the cursor of the page about to be
\* printed, with a limit above the number of results
resumed_keys ==
  run_query([args EXCEPT !.cursor_set = TRUE,
                         !.cursor_token = meta_line(engine, seed, args, index).cursor,
                         !.limit = BigLimit], index).keys

\* the shard whose range holds base key v
shard_of_key(v) == CHOOSE sh \in 0..(index.num_shards - 1) :
                     shard_starts(index)[sh] <= v /\ v < shard_ends(index)[sh]

\* v comes before every other key of its shard in the sequence ks
first_of_its_shard(v, ks) ==
  \E j \in 1..Len(ks) :
     /\ ks[j] = v
     /\ \A h \in 1..(j - 1) : shard_of_key(ks[h]) # shard_of_key(v)

\* C24: when limit + 1 candidates were collected, the (limit + 1)-th is not consumed: it
\* is returned when the scan is resumed from the returned cursor, in mode 0 as the first
\* key of its lane's shard.
C24_LookaheadKept ==
  (pc = "finish" /\ Len(out_vals) > args.limit) =>
     /\ out_vals[args.limit + 1] \in Range(resumed_keys)
     /\ kout_now = index.k => first_of_its_shard(out_vals[args.limit + 1], resumed_keys)

\* the children lane i holds in its buffer and has not handed to the output
undrained(i) == {lanes[i].buf[j] : j \in (lanes[i].buf_pos + 1)..Len(lanes[i].buf)}

\* C25: at the end of a page in mode 1 the expansion state stored for an active lane
\* designates its first child not yet returned: the children buffered in the lane but
\* not drained are produced when the scan is resumed from the cursor.
C25_ResumePointExpand ==
  (pc = "finish" /\ kout_now > index.k /\ has_more(engine, args, index)) =>
     \A i \in DOMAIN lanes :
        lanes[i].active => undrained(i) \subseteq Range(resumed_keys)

-----------------------------------------------------------------------------
\* Refills of one lane (specification SpecLong)

\* every child of every absent anchor from v on, anchors ascending, the children of
\* one anchor in the order of its expansion states
RECURSIVE children_from(_, _)
children_from(v, d) ==
  IF v >= total_bits_of(index) THEN <<>>
  ELSE (IF absent_key(v) THEN [n \in 1..((d + 1) * pow4(d)) |-> child_at(v, d, n - 1)]
        ELSE <<>>) \o children_from(v + 1, d)

\* a[i..] can be read in b[j..] from left to right, skipping elements of b
RECURSIVE is_subseq_from(_, _, _, _)
is_subseq_from(a, i, b, j) ==
  IF i > Len(a) THEN TRUE
  ELSE IF j > Len(b) THEN FALSE
  ELSE IF a[i] = b[j] THEN is_subseq_from(a, i + 1, b, j + 1)
  ELSE is_subseq_from(a, i, b, j + 1)

\* C26: across the successive refills of one lane no expansion state is enumerated
\* twice, and a refill that follows the exhaustion of a parent goes on with the next
\* absent parent: the children a single lane hands out in one page follow the order
\* of the expansion states, each state at most once.
C26_NoReenumeration ==
  (kout_now > index.k /\ args.window = 1 /\ ~args.cursor_set) =>
     is_subseq_from(out_vals, 1, children_from(0, kout_now - index.k), 1)

-----------------------------------------------------------------------------
\* The expansion state (specification SpecExp)

\* 0 <= L <= d, left_idx < 4^L, right_idx < 4^(d-L)
state_in_range(d, s) ==
  /\ 0 <= s.L /\ s.L <= d
  /\ 0 <= s.left_idx /\ s.left_idx < pow4(s.L)
  /\ 0 <= s.right_idx /\ s.right_idx < pow4(d - s.L)

\* the rank of a state in the order "L from d down to 0, left_idx outermost, right_idx
\* innermost"
state_rank(d, s) == (d - s.L) * pow4(d) + s.left_idx * pow4(d - s.L) + s.right_idx

\* C27: every state reached from init_state_first(d) by advance_state has 0 <= L <= d,
\* left_idx < 4^L and right_idx < 4^(d-L); each advance that returns true leads to the
\* next state in the order L descending, left_idx outermost, right_idx innermost (both
\* indices 0 after L is decremented); advance_state returns false only out of the last
\* state with L = 0.
C27_ExpansionStateOrder ==
  /\ [](xs.on => state_in_range(xs.d, xs))
  /\ [][(xs.on /\ xs'.seen # xs.seen) =>
          /\ xs'.done <=> (xs.L = 0 /\ state_rank(xs.d, xs) = (xs.d + 1) * pow4(xs.d) - 1)
          /\ ~xs'.done => state_rank(xs.d, xs') = state_rank(xs.d, xs) + 1
          /\ (~xs'.done /\ xs'.L # xs.L) =>
                (xs'.L = xs.L - 1 /\ xs'.left_idx = 0 /\ xs'.right_idx = 0)]_vars

C27_Witness ==
  /\ xs.on /\ xs.done /\ xs.d = MaxExpD /\ xs.B = 5
  /\ Len(xs.seen) = (xs.d + 1) * pow4(xs.d)

-----------------------------------------------------------------------------
\* The permutation head under the refill pool (specification SpecPar)

\* two workers are between the read and the write of "next_perm_pos++" at once
increments_overlap ==
  /\ pc = "workers"
  /\ \E t, u \in DOMAIN wk : t # u /\ wk[t].pc = "fill_write" /\ wk[u].pc = "fill_write"

\* C28: whatever the interleaving of the refill workers, their increments of
\* next_perm_pos never overlap, next_perm_pos never exceeds num_shards, and after each
\* refill phase of a fresh query every active lane holds a position below
\* next_perm_pos that no other active lane holds.
C28_PermHeadConsistent ==
  /\ ~increments_overlap
  /\ next_perm_pos <= index.num_shards
  /\ (pc = "drain" /\ ~args.cursor_set) =>
        \A i \in DOMAIN lanes :
           lanes[i].active =>
              /\ lanes[i].perm_pos < next_perm_pos
              /\ \A j \in DOMAIN lanes : (j # i /\ lanes[j].active) => lanes[j].perm_pos # lanes[i].perm_pos

-----------------------------------------------------------------------------
\* hasMore of a page that was not cut (specification SpecIo)

\* lane i still has buffered output
buffered_output(i) == lanes[i].buf_pos < Len(lanes[i].buf)

\* lane i is in mid-expansion: kout > k0 with an unfinished parent
mid_expansion(i) == lanes[i].active /\ kout_now > index.k /\ lanes[i].child_present

\* C29: when the scan loop ends with at most limit keys collected, hasMore is '1' iff
\* some lane still has buffered output, or some lane is in mid-expansion, or
\* next_perm_pos < num_shards.
C29_HasMoreNotTruncated ==
  [][ (pc = "finish" /\ pc' = "done" /\ Len(out_vals) <= args.limit) =>
        ((meta'.hasMore = "1") <=>
            \/ \E i \in DOMAIN lanes : buffered_output(i)
            \/ \E i \in DOMAIN lanes : mid_expansion(i)
            \/ next_perm_pos < index.num_shards) ]_vars

\* a page with fewer keys than the limit that announces a successor
C29_Witness ==
  /\ pc = "done" /\ meta.count < args.limit /\ meta.hasMore = "1"
  /\ next_perm_pos < index.num_shards

-----------------------------------------------------------------------------
\* The drain round (specification Spec)

\* what lanes i, i+1, ..., w-1 hand out between the lane states ls and ls2: for each
\* lane the keys of its buffer from its old read position up to its new one
RECURSIVE taken_from(_, _, _, _)
taken_from(ls, ls2, i, w) ==
  IF i >= w THEN <<>>
  ELSE SubSeq(ls[i].buf, ls[i].buf_pos + 1, ls2[i].buf_pos) \o taken_from(ls, ls2, i + 1, w)

\* C30: a drain round visits the lanes in index order 0..W-1; each active lane
\* contributes at most burst consecutive keys from the front of its buffer, in buffer
\* order, and an inactive lane none; a refill phase leaves alone every lane whose
\* buffer still holds undrained keys.
C30_RoundRobinDrain ==
  /\ [][ (pc = "drain" /\ pc' # "drain") =>
           /\ \A i \in DOMAIN lanes :
                 /\ lanes'[i].buf = lanes[i].buf
                 /\ lanes[i].buf_pos <= lanes'[i].buf_pos
                 /\ lanes'[i].buf_pos <= lanes[i].buf_pos + args.burst
                 /\ lanes'[i].buf_pos <= Len(lanes[i].buf)
                 /\ ~lanes[i].active => lanes'[i].buf_pos = lanes[i].buf_pos
           /\ out_vals' = out_vals \o taken_from(lanes, lanes', 0, args.window) ]_vars
  /\ [][ (pc = "loop" /\ pc' = "drain") =>
           \A i \in DOMAIN lanes :
              lanes[i].buf_pos < Len(lanes[i].buf) => lanes'[i] = lanes[i] ]_vars

\* a refill phase has passed over a lane with a partly drained buffer, and a drain
\* round with two lanes follows
C30_Witness ==
  /\ pc = "drain" /\ args.window = 2 /\ Len(out_vals) > 0
  /\ \E i \in DOMAIN lanes :
        lanes[i].active /\ 0 < lanes[i].buf_pos /\ lanes[i].buf_pos < Len(lanes[i].buf)

-----------------------------------------------------------------------------
\* Order of the keys of one shard (specifications Spec and SpecPar)

\* the keys handed to the output so far: the pages already printed and the keys
\* collected for the page under way
emitted_keys == IF pc = "done" THEN chain ELSE chain \o out_vals

\* C31: with kout = k0 the keys emitted from one shard, across all refills and all
\* pages of a chain, form a strictly increasing sequence.
C31_ShardKeysIncreasing ==
  kout_now = index.k =>
     \A i, j \in 1..Len(emitted_keys) :
        (i < j /\ shard_of_key(emitted_keys[i]) = shard_of_key(emitted_keys[j]))
           => emitted_keys[i] < emitted_keys[j]

-----------------------------------------------------------------------------
\* Termination (specification SpecTerm)

\* an iteration of the scan loop (refill phase, drain round, exit test) that hands
\* the loop the state it started from: the body being deterministic, the loop then
\* runs for ever
loop_stuck ==
  /\ pc = "loop"
  /\ loop_continues(engine, need)
  /\ \E e2 \in {drain_round(refill_phase_from(engine, 0, args, index, perm), need, args, index)} :
        /\ e2 = engine
        /\ ~(Len(e2.out) = Len(out_vals) /\ ~any_active(e2.lanes))

\* C32: a fresh query on shards that load, with start <= end for every shard, leaves
\* the scan loop after finitely many iterations (no iteration hands back the state it
\* started from) and prints exactly one __META__ line.
C32_FreshQueryTerminates ==
  /\ ~loop_stuck
  /\ pages <= 1
  /\ pc = "done" => (pages = 1 /\ meta # NoMeta)

-----------------------------------------------------------------------------
\* Cursors written by the client (specification SpecForged)

\* C33: for every cursor that passes resume validation, whatever its lanes carry for
\* after, parent_anchor and the expansion indices, the scan loop ends after finitely
\* many iterations (no iteration hands back the state it started from) and a
\* __META__ line is printed.
C33_AcceptedCursorTerminates ==
  /\ args.cursor_set => ~loop_stuck
  /\ (args.cursor_set /\ pc = "done") => meta # NoMeta

\* the lane invariants on the lane states ls and the head npp: active lanes have
\* pairwise distinct perm_pos below npp <= num_shards, and in mode 1 L <= d,
\* left_idx < 4^L, right_idx < 4^(d-L)
lane_invariants(ls, npp) ==
  /\ npp <= index.num_shards
  /\ \A i \in DOMAIN ls :
        ls[i].active =>
           /\ ls[i].perm_pos < npp
           /\ \A j \in DOMAIN ls : (j # i /\ ls[j].active) => ls[j].perm_pos # ls[i].perm_pos
           /\ kout_now > index.k =>
                 /\ ls[i].L <= kout_now - index.k
                 /\ ULess(ls[i].left_idx, pow4(ls[i].L))
                 /\ ULess(ls[i].right_idx, pow4(kout_now - index.k - ls[i].L))

\* the cursor c itself is well formed for the request: lane_count = window, each
\* active lane's mode agrees with kout = k0, and the lane invariants hold
cursor_well_formed(c) ==
  /\ Len(c.lanes) = args.window
  /\ \A i \in DOMAIN c.lanes :
        c.lanes[i].active => c.lanes[i].mode = (IF kout_now = index.k THEN 0 ELSE 1)
  /\ lane_invariants(c.lanes, c.next_perm_pos)

\* C34: a cursor that passes resume validation restores an engine state that
\* satisfies the lane invariants, and a cursor that violates one of them (lane_count,
\* distinct perm_pos, perm_pos < next_perm_pos <= num_shards, mode, expansion ranges)
\* is rejected.
C34_AcceptedCursorWellFormed ==
  [][ (pc = "start" /\ args.cursor_set /\ pc' # "start") =>
        /\ pc' = "loop" => lane_invariants(lanes', next_perm_pos')
        /\ ~cursor_well_formed(parse_cursor_bcw2(args.cursor_token).c) => pc' = "failed" ]_vars

-----------------------------------------------------------------------------
\* Default shard ranges (specification SpecRanges)

\* C35: the ranges derived when index.json gives no start/end satisfy
\* start_i <= end_i for every shard, are adjacent in index order (hence pairwise
\* disjoint), begin at 0 and end at total_bits.
C35_DefaultRangesPartition ==
  pc # "start" =>
     /\ \A i \in 0..(index.num_shards - 1) : shard_starts(index)[i] <= shard_ends(index)[i]
     /\ \A i \in 0..(index.num_shards - 2) : shard_ends(index)[i] = shard_starts(index)[i + 1]
     /\ shard_starts(index)[0] = 0
     /\ shard_ends(index)[index.num_shards - 1] = total_bits_of(index)

-----------------------------------------------------------------------------
\* The membership query on an index.json without start/end (specification SpecMem)

\* C36: when index.json lists the shards without start/end, a membership query whose
\* keys lie in the universe is not refused: each key is routed to the equal-width
\* shard that owns it, the one the streaming engine scans for it, and answered from it.
C36_MembershipDefaultRanges ==
  ( /\ mq.on /\ mq.pc # "start"
    /\ mq.shards = shard_infos_missing(index)
    /\ \A i \in 1..Len(mq.kmer_vals) : mq.kmer_vals[i] < total_bits_of(index) ) =>
       /\ mq.pc # "failed"
       /\ mq.pc = "done" =>
            mq.out = [i \in 1..Len(mq.kmer_vals) |->
                        out_line(mq.kmer_vals[i], IF mq.kmer_vals[i] \in present THEN "1" ELSE "0")]

-----------------------------------------------------------------------------
\* Input validation of the membership query (specification SpecMemIn)

\* the keys a line of k bases spells, whatever the case of its letters
keys_spelled(line) ==
  {v \in 0..(pow4(index.k) - 1) :
     \A i \in 1..index.k :
        line[i] \in {<<"A", "C", "G", "T">>[(Shr(v, 2 * (index.k - i)) % 4) + 1],
                     <<"a", "c", "g", "t">>[(Shr(v, 2 * (index.k - i)) % 4) + 1]}}

\* a non-empty line that has not k characters, or a character outside ACGT in either
\* case, or spells a key that lies in no shard range
bad_line(raw) ==
  /\ next_line(raw) # <<>>
  /\ \/ Len(next_line(raw)) # index.k
     \/ keys_spelled(next_line(raw)) = {}
     \/ \E v \in keys_spelled(next_line(raw)) :
           \A s \in DOMAIN mq.shards : ~(mq.shards[s].start <= v /\ v < mq.shards[s].end)

\* C37: if some non-empty input line has a length other than k, or a character
\* outside ACGT (either case), or encodes a key in no shard range, the membership
\* query ends with a non-zero status and writes no result line, whatever valid lines
\* precede it.
C37_MembershipRejectsBadInput ==
  (mq.on /\ mq.pc \notin {"read", "start"} /\ "text" \in DOMAIN mq
     /\ \E i \in 1..Len(mq.text) : bad_line(mq.text[i])) =>
        /\ mq.pc = "failed"
        /\ mq.rc # 0
        /\ mq.out = <<>>

\* a text rejected for its third line, two valid lines before it
C37_Witness ==
  /\ mq.on /\ "text" \in DOMAIN mq /\ mq.pc = "failed" /\ mq.rc = 3
  /\ Len(mq.text) = 3
  /\ ~bad_line(mq.text[1]) /\ next_line(mq.text[1]) # <<>>
  /\ ~bad_line(mq.text[2]) /\ next_line(mq.text[2]) # <<>>
  /\ bad_line(mq.text[3])

\* a text rejected for a key past the last shard, a valid line before it
C37_WitnessRange ==
  /\ mq.on /\ "text" \in DOMAIN mq /\ mq.pc = "failed" /\ mq.rc = 2
  /\ Len(mq.text) >= 2 /\ ~bad_line(mq.text[1]) /\ next_line(mq.text[1]) # <<>>

-----------------------------------------------------------------------------
\* Ownership of the lanes in the refill pool (specification SpecClaim)

\* worker t holds a lane index: it is between its fetch_add and the end of its work
\* on lanes[i]
holds_lane(t) == wk[t].pc \in {"own", "fill_test", "fill_read", "fill_write"}

\* C38: in every parallel refill phase no two workers hold the same lane index at
\* any time, and when the pool is joined the counter has handed out each index of
\* [0, W) once and one index >= W to each worker.
C38_WorkersNeverShareLane ==
  /\ [](pc = "workers" =>
          \A t, u \in DOMAIN wk : (t # u /\ holds_lane(t) /\ holds_lane(u)) => wk[t].i # wk[u].i)
  /\ [][(pc = "workers" /\ pc' = "drain") => idx = args.window + pool_size]_vars

\* two workers hold the two lanes at once, both in try_fill_empty_lane
C38_Witness ==
  /\ pc = "workers"
  /\ \E t, u \in DOMAIN wk :
        /\ t # u /\ wk[t].i # wk[u].i
        /\ wk[t].pc \in {"fill_test", "fill_read", "fill_write"}
        /\ wk[u].pc \in {"fill_test", "fill_read", "fill_write"}

-----------------------------------------------------------------------------
\* The buffer ring of gen_kmer_bitmap (specification SpecRing)

\* C39: under every interleaving of the producer and the writer thread the words
\* in the file, once the writer is joined, are the words passed to put_bytes, in
\* order and each once; and the writer resets a buffer only when it holds exactly
\* the words it flushed (the producer has not written to it in between).
C39_RingLosesNoData ==
  /\ []((kf.on /\ kf.kind = "ring" /\ kf.pc = "done") => kf.file = [j \in 1..kf.total |-> j])
  /\ [][(kf.on /\ kf.kind = "ring" /\ kf.wpc = "reset" /\ kf'.wpc = "wait")
          => kf.used[kf.flush_idx] = kf.to_write]_vars

-----------------------------------------------------------------------------
\* The selection sampling of gen_kmer_bitmap (specification SpecGen)

RECURSIVE ones_in(_, _, _)
\* the number of bits set in the words ws[i..], word n holding ones_of[n] bits
ones_in(ws, ones_of, i) ==
  IF i > Len(ws) THEN 0
  ELSE (IF ws[i] \in 1..Len(ones_of) THEN ones_of[ws[i]] ELSE 0) + ones_in(ws, ones_of, i + 1)

\* the loop's own part of C40: needed <= remaining before every bit, needed = 0
\* when remaining = 0, the words passed to put_bytes hold ones_target - needed bits
sampling_exact ==
  (kf.on /\ kf.kind = "ring" /\ kf.sampling) =>
     /\ kf.needed <= kf.remaining
     /\ kf.remaining = 0 => kf.needed = 0
     /\ ones_in([n \in 1..Len(kf.ones_of) |-> n], kf.ones_of, 1) + kf.w = kf.ones_target - kf.needed
     /\ kf.pc = "done" => gen_exit_code(kf) = 0

\* C40: needed <= remaining holds before every bit whatever the generator returns,
\* needed is 0 when remaining reaches 0, the exit "internal mismatch" is not taken,
\* and the payload in the file has exactly ones_target bits set.
C40_ExactOnes ==
  /\ sampling_exact
  /\ (kf.on /\ kf.kind = "ring" /\ kf.sampling /\ kf.pc = "done") =>
        ones_in(kf.file, kf.ones_of, 1) = kf.ones_target

====
